---- MODULE Spec2Model ----
(***************************************************************************)
(* Sale-transaction and stock-consistency engine of the Team-BOOZE         *)
(* inventory system: src/src/database_manager.py process_sale_transaction  *)
(* and its caller src/src/sales.py process_sale.                           *)
(*                                                                         *)
(* The store is one SQLite file.  Each session (operating-system process)  *)
(* opens its own connection per call.  A connection in an explicit         *)
(* deferred transaction takes the file's single write lock at its first    *)
(* write statement and keeps it until COMMIT or ROLLBACK; its writes are   *)
(* private to the connection until COMMIT and are discarded by ROLLBACK.   *)
(***************************************************************************)
EXTENDS Integers, Sequences, FiniteSets, TLC

\* ---------------------------------------------------------------- bounds
MaxQty == 2
MaxCartLen == 2
MaxCalls == 2
MaxSessions == 2
MaxOps == 1

\* ------------------------------------------------------- enumerated input
\* session 1 is a process running sales.py (process_sale); session 2 is a
\* process that calls process_sale_transaction itself, as the unit tests do
SaleSessions == {1}
DirectSessions == {2}
Sessions == SaleSessions \cup DirectSessions
\* a process at the inventory and product menus (inventory_tracking.py,
\* product_management.py)
ClerkSessions == {2}
Products == {1, 2}
\* an id with no row in booze (999 in the unit tests)
MissingId == Cardinality(Products) + 1
MaxStock == MaxQty
ProductIds == Products \cup {MissingId}
\* Python's None; ids and sessions are positive
None == 0
NoSession == None
NoId == None

\* unit price carried by the enumerated cart lines
LinePrice(p) == p + 1

CartLines ==
    {[product_id |-> p, quantity |-> q, price |-> LinePrice(p)] :
        p \in Products, q \in 1..MaxQty}
    \cup {[product_id |-> MissingId, quantity |-> 1, price |-> LinePrice(MissingId)]}

Carts == UNION {[1..n -> CartLines] : n \in 0..MaxCartLen}

\* the carts of one line
OneLineCarts == {cart \in Carts : Len(cart) = 1}

\* ----------------------------------------------------------------- state
VARIABLES
    db,                   \* committed content of inventory.db
    lock,                 \* session holding the file's write lock, or NoSession
    ses,                  \* per session: position and locals of the running call
    LAST_TRANSACTION_ID,  \* sales.py module global, one per process
    ncalls,               \* calls started so far
    rs,                   \* per sale process: its record_sale session and menu
    inv,                  \* per clerk process: its stock or product operation
    view,                 \* per sale process: its view_last_transaction call
    users,                \* committed content of the users table
    app                   \* app.py: position of main and its session globals

vars ==
    <<db, lock, ses, LAST_TRANSACTION_ID, ncalls, rs, inv, view, users, app>>

\* ---------------------------------------------------------------- helpers
RECURSIVE SumTotal(_)
SumTotal(cart) ==
    IF cart = <<>> THEN 0
    ELSE cart[1].price * cart[1].quantity + SumTotal(Tail(cart))

RECURSIVE SumPrices(_)
SumPrices(cart) ==
    IF cart = <<>> THEN 0
    ELSE cart[1].price + SumPrices(Tail(cart))

\* sales.py line 114: total_amount = sum(item['price'] * item['quantity'] ...)
CartTotalWrong(cart) == SumPrices(cart)
CartTotal(cart) == SumTotal(cart)

\* total quantity a cart requests of product p
RECURSIVE CartQty(_, _)
CartQty(cart, p) ==
    IF cart = <<>> THEN 0
    ELSE (IF cart[1].product_id = p THEN cart[1].quantity ELSE 0)
         + CartQty(Tail(cart), p)

\* results of process_sale_transaction: (success, transaction_id or message)
NoResult == [ok |-> FALSE, value |-> <<"none">>]
Success(tid) == [ok |-> TRUE, value |-> <<"id", tid>>]
Failure(msg) == [ok |-> FALSE, value |-> msg]
NotFoundMsg(p) == <<"not found", p>>
InsufficientMsg(p, avail, req) == <<"insufficient stock", p, avail, req>>
StoreErrorMsg == <<"store error">>
NoExc == <<"none">>

\* booze row: id -> (price, quantity_on_hand); the other columns are not
\* read or written by the sale engine.
NoDb ==
    [booze |-> [p \in Products |-> [price |-> 0, quantity_on_hand |-> 0]],
     transactions |-> <<>>,
     transaction_items |-> <<>>]

IdleSession ==
    [pc |-> "idle", via |-> "none", cart_items |-> <<>>, total_amount |-> 0,
     conn |-> "none", work |-> NoDb, transaction_id |-> NoId, lastrowid |-> NoId,
     idx |-> 1, current_stock |-> 0, new_stock |-> 0, exc |-> NoExc,
     result |-> NoResult, sale_result |-> NoResult,
     pre |-> NoDb, pre_last |-> None, clean |-> TRUE]

\* what the operator types at a prompt: a decimal integer, a text int()
\* rejects, or nothing at all
Typed(n) == <<"int", n>>
NotANumber == <<"text">>
Blank == <<"blank">>

\* the latest menu step of a record_sale session and what it answered
NoStep ==
    [kind |-> "none", product_id_str |-> Blank, quantity_str |-> Blank,
     accepted |-> FALSE, error |-> <<>>, confirm |-> "none"]

\* a sale process outside record_sale; started counts its sessions so far
NoRecordSale ==
    [pc |-> "none", cart |-> <<>>, ret |-> "none", last |-> NoStep,
     pre |-> NoDb, pre_last |-> None, calls0 |-> 0, started |-> 0]

\* a clerk process between two operations; started counts them
NoOperation ==
    [pc |-> "idle", op |-> "none", product_id_str |-> Blank,
     quantity_str |-> Blank, price_str |-> Blank, product_id |-> None,
     current_stock |-> 0, new_stock_level |-> 0, update_data |-> <<>>,
     exc |-> NoExc, ret |-> "none", pre |-> NoDb, started |-> 0]

\* ------------------------------------------- accounts: texts and the table
\* a text typed at a prompt or passed to a function is the sequence of its
\* characters; a global that holds None is <<>>, one that holds v is <<v>>
NoValue == <<>>
ManagerName == <<"m", "a", "n", "a", "g", "e", "r">>
ClerkName == <<"c", "l", "e", "r", "k">>
AmyName == <<"a", "m", "y">>
ManagerPassword == <<"m", "a", "n", "a", "g", "e", "r", "1", "2", "3">>
ClerkPassword == <<"c", "l", "e", "r", "k", "1", "2", "3">>
AmyPassword == <<"s", "e", "c", "r", "e", "t", "1">>

\* bcrypt.hashpw and bcrypt.checkpw
Hashed(password) == <<"$2b$">> \o password
CheckPw(password, password_hash) == password_hash = Hashed(password)

\* init_db.py lines 94-103: the two default accounts
DefaultUsers ==
    [u \in {ManagerName, ClerkName} |->
        IF u = ManagerName
        THEN [password_hash |-> Hashed(ManagerPassword), role |-> "Manager"]
        ELSE [password_hash |-> Hashed(ClerkPassword), role |-> "Clerk"]]

\* what the last step of main did and answered
NoAccountStep ==
    [kind |-> "none", username |-> <<>>, password |-> <<>>, success |-> FALSE,
     message |-> "", delete_user |-> FALSE]

\* app.py lines 40-42 and the start of main
AppStart ==
    [pc |-> "account_menu", CURRENT_USER |-> NoValue, CURRENT_ROLE |-> NoValue,
     LOGIN_TIME |-> NoValue, role |-> NoValue, last |-> NoAccountStep]

\* view_last_transaction: the id it found in LAST_TRANSACTION_ID, the
\* number of store reads it made and the value it returned
NoView == [pc |-> "idle", seen |-> None, reads |-> 0, ret |-> "none"]

\* ------------------------------------------------------------------ Init
\* init_db.py: empty transactions and transaction_items, stocked products.
Init ==
    /\ \E stock \in [Products -> 0..MaxStock] :
          db = [booze |-> [p \in Products |->
                             [price |-> LinePrice(p), quantity_on_hand |-> stock[p]]],
                transactions |-> <<>>,
                transaction_items |-> <<>>]
    /\ lock = NoSession
    /\ ses = [s \in Sessions |-> IdleSession]
    /\ LAST_TRANSACTION_ID = [s \in Sessions |-> None]
    /\ ncalls = 0
    /\ rs = [s \in SaleSessions |-> NoRecordSale]
    /\ inv = [s \in ClerkSessions |-> NoOperation]
    /\ view = [s \in SaleSessions |-> NoView]
    /\ users = DefaultUsers
    /\ app = AppStart

\* ------------------------------------------------- process_sale (sales.py)
\* sales.py line 110: if not cart
CartIsEmptyNever(cart) == FALSE
CartIsEmpty(cart) == cart = <<>>

EmptyCartMsg == <<"Cannot process empty cart">>
CompletedMsg(tid) == <<"Sale completed successfully! Transaction ID", tid>>
FailedMsg(reason) == <<"Sale failed">> \o reason

\* sales.py line 111: return False, "Cannot process empty cart"
EmptyCartResultOk == Success(None)
EmptyCartResult == Failure(EmptyCartMsg)

\* database_manager.py lines 385-390: connection and cursor opened,
\* BEGIN TRANSACTION (deferred: no lock is taken yet)
Enter(s, via, cart, total) ==
    /\ ncalls' = ncalls + 1
    /\ ses' = [ses EXCEPT ![s] =
                 [IdleSession EXCEPT !.pc = "insert_txn", !.via = via,
                                     !.cart_items = cart, !.total_amount = total,
                                     !.conn = "open", !.pre = db,
                                     !.pre_last = LAST_TRANSACTION_ID[s]]]
    /\ UNCHANGED <<db, lock, LAST_TRANSACTION_ID, rs, inv, view, users, app>>

\* sales.py lines 102-117: an empty cart is answered at once; otherwise the
\* total is computed and process_sale_transaction is called
ProcessSaleCart(s, cart) ==
    IF CartIsEmpty(cart)
    THEN /\ ncalls' = ncalls + 1
         /\ ses' = [ses EXCEPT ![s] =
                      [IdleSession EXCEPT
                          !.pc = "done", !.via = "process_sale",
                          !.cart_items = cart,
                          !.sale_result = EmptyCartResult,
                          !.pre = db,
                          !.pre_last = LAST_TRANSACTION_ID[s]]]
         /\ UNCHANGED <<db, lock, LAST_TRANSACTION_ID, rs, inv, view, users, app>>
    ELSE Enter(s, "process_sale", cart, CartTotal(cart))

\* process_sale called with any cart, as the unit tests call it
ProcessSale(s) ==
    /\ s \in SaleSessions
    /\ ses[s].pc = "idle"
    /\ ncalls < MaxCalls
    /\ \E cart \in Carts : ProcessSaleCart(s, cart)

\* process_sale_transaction called by another caller (the unit tests do),
\* with a total the caller chose (tests/test_database_manager.py line 342
\* passes the unit price of a three-unit line)
DirectCall(s) ==
    /\ s \in DirectSessions
    /\ ses[s].pc = "idle"
    /\ ncalls < MaxCalls
    /\ \E cart \in Carts :
          Enter(s, "direct", cart, SumPrices(cart))

\* ------------------------------ process_sale_transaction (database_manager.py)
\* transactions.transaction_id INTEGER PRIMARY KEY AUTOINCREMENT; no row is
\* ever deleted, so the next id is one more than the number of rows
NextTransactionId(store) == Len(store.transactions) + 1
NextItemId(store) == Len(store.transaction_items) + 1

\* lines 393-398: INSERT INTO transactions; the first write takes the write
\* lock, from here on the connection reads the committed store plus its own
\* uncommitted writes
InsertTransaction(s) ==
    /\ ses[s].pc = "insert_txn"
    /\ lock = NoSession
    /\ lock' = s
    /\ LET tid == NextTransactionId(db)
           w == [db EXCEPT !.transactions =
                    Append(@, [transaction_id |-> tid,
                               total_amount |-> ses[s].total_amount])]
       IN ses' = [ses EXCEPT ![s] =
                    [@ EXCEPT !.work = w, !.transaction_id = tid, !.lastrowid = tid,
                              !.pc = IF ses[s].cart_items = <<>>
                                     THEN "commit" ELSE "insert_item"]]
    /\ UNCHANGED <<db, LAST_TRANSACTION_ID, ncalls, rs, inv, view, users, app>>

\* line 406: the price stored with the item row is item['price']
PriceAtSaleReread(s, item) ==
    IF item.product_id \in DOMAIN ses[s].work.booze
    THEN ses[s].work.booze[item.product_id].price ELSE item.price
PriceAtSale(s, item) == item.price

\* lines 401-408: INSERT INTO transaction_items for the current cart line
InsertItem(s) ==
    /\ ses[s].pc = "insert_item"
    /\ LET item == ses[s].cart_items[ses[s].idx]
           iid == NextItemId(ses[s].work)
           row == [item_id |-> iid, transaction_id |-> ses[s].transaction_id,
                   product_id |-> item.product_id, quantity |-> item.quantity,
                   price_at_sale |-> PriceAtSale(s, item)]
       IN ses' = [ses EXCEPT ![s] =
                    [@ EXCEPT !.work.transaction_items = Append(@, row),
                              !.lastrowid = iid, !.pc = "select"]]
    /\ UNCHANGED <<db, lock, LAST_TRANSACTION_ID, ncalls, rs, inv, view, users, app>>

\* lines 411-415: SELECT quantity_on_hand FROM booze WHERE id = ?; fetchone()
\* on the connection that holds the write lock.  <<>> stands for None.
FetchOneStale(s, p) ==
    IF p \in DOMAIN ses[s].work.booze
    THEN <<ses[s].pre.booze[p].quantity_on_hand>> ELSE <<>>
FetchOneZero(s, p) ==
    IF p \in DOMAIN ses[s].work.booze
    THEN <<ses[s].work.booze[p].quantity_on_hand>> ELSE <<0>>
FetchOne(s, p) ==
    IF p \in DOMAIN ses[s].work.booze
    THEN <<ses[s].work.booze[p].quantity_on_hand>> ELSE <<>>

\* line 423: if new_stock < 0
StockCheckOff(new_stock) == new_stock < 0 - MaxQty
WouldGoNegative(new_stock) == new_stock < 0

\* lines 424-427: "Insufficient stock for product {id}: available
\* {current_stock}, requested {quantity}"
InsufficientErrorNewStock(s, item, current_stock) ==
    InsufficientMsg(item.product_id, current_stock - item.quantity, item.quantity)
InsufficientError(s, item, current_stock) ==
    InsufficientMsg(item.product_id, current_stock, item.quantity)

\* line 441: conn.rollback(): the committed store after the rollback
AfterRollbackKeepsWrites(s) == IF lock = s THEN ses[s].work ELSE db
AfterRollbackKeepsItems(s) ==
    IF lock = s
    THEN [db EXCEPT !.transaction_items = ses[s].work.transaction_items]
    ELSE db
AfterRollback(s) == db

\* line 442: return False, str(e)
HandlerResultSwallowed(s, e) == Success(ses[s].transaction_id)
HandlerResult(s, e) == Failure(e)

\* lines 439-444: sqlite3.Error e raised inside the try block: rollback,
\* return (False, str(e)), conn.close(); the function's locals end with
\* the call
Raise(s, e) ==
    /\ db' = AfterRollback(s)
    /\ lock' = IF lock = s THEN NoSession ELSE lock
    /\ ses' = [ses EXCEPT ![s] =
                 [@ EXCEPT !.exc = e, !.result = HandlerResult(s, e),
                           !.current_stock = 0, !.new_stock = 0, !.lastrowid = NoId,
                           !.transaction_id = NoId,
                           !.conn = "closed", !.work = NoDb, !.pc = "returned"]]
    /\ UNCHANGED <<LAST_TRANSACTION_ID, ncalls, rs, inv, view, users, app>>

\* lines 411-427: re-read the stock; raise on a missing product or on a
\* stock that would go negative
SelectStock(s) ==
    /\ ses[s].pc = "select"
    /\ LET item == ses[s].cart_items[ses[s].idx]
           stock_result == FetchOne(s, item.product_id)
       IN IF stock_result = <<>>
          THEN Raise(s, NotFoundMsg(item.product_id))
          ELSE LET current_stock == stock_result[1]
                   new_stock == current_stock - item.quantity
               IN IF WouldGoNegative(new_stock)
                  THEN Raise(s, InsufficientError(s, item, current_stock))
                  ELSE /\ ses' = [ses EXCEPT ![s] =
                                    [@ EXCEPT !.current_stock = current_stock,
                                              !.new_stock = new_stock,
                                              !.pc = "update"]]
                       /\ UNCHANGED <<db, lock, LAST_TRANSACTION_ID, ncalls, rs,
                                      inv, view, users, app>>

\* lines 430-433: UPDATE booze SET quantity_on_hand = new_stock; next line
UpdateStock(s) ==
    /\ ses[s].pc = "update"
    /\ LET item == ses[s].cart_items[ses[s].idx]
       IN ses' = [ses EXCEPT ![s] =
                    [@ EXCEPT !.work.booze[item.product_id].quantity_on_hand =
                                  ses[s].new_stock,
                              !.idx = @ + 1,
                              !.pc = IF ses[s].idx = Len(ses[s].cart_items)
                                     THEN "commit" ELSE "insert_item"]]
    /\ UNCHANGED <<db, lock, LAST_TRANSACTION_ID, ncalls, rs, inv, view, users, app>>

\* the statements that can raise sqlite3.Error inside the try block:
\* BEGIN and the header INSERT (pc "insert_txn"), the item INSERT, the
\* SELECT, the UPDATE and the COMMIT
StoreSteps == {"insert_txn", "insert_item", "select", "update", "commit"}

\* a statement of the try block raises sqlite3.Error (an I/O error, or
\* "database is locked" when another connection keeps the write lock)
StoreError(s) ==
    /\ ses[s].pc \in StoreSteps
    /\ Raise(s, StoreErrorMsg)

\* line 398: transaction_id = cursor.lastrowid, returned at line 437
ReturnedIdLate(s) == ses[s].lastrowid
ReturnedId(s) == ses[s].transaction_id

\* a commit is seen by the calls the other sessions have in progress
Disturb(s, f) ==
    [t \in Sessions |->
        IF t = s THEN f[t]
        ELSE IF f[t].pc = "idle" THEN f[t] ELSE [f[t] EXCEPT !.clean = FALSE]]

\* lines 436-437 and 444: conn.commit(), return (True, transaction_id),
\* conn.close(); the function's locals end with the call
Commit(s) ==
    /\ ses[s].pc = "commit"
    /\ lock = s
    /\ db' = ses[s].work
    /\ lock' = NoSession
    /\ ses' = Disturb(s, [ses EXCEPT ![s] =
                 [@ EXCEPT !.result = Success(ReturnedId(s)), !.conn = "closed",
                           !.current_stock = 0, !.new_stock = 0, !.lastrowid = NoId,
                           !.transaction_id = NoId,
                           !.work = NoDb, !.pc = "returned"]])
    /\ UNCHANGED <<LAST_TRANSACTION_ID, ncalls, rs, inv, view, users, app>>

\* sales.py lines 119-124: back in process_sale
SaleReturn(s) ==
    /\ ses[s].pc = "returned"
    /\ ses[s].via = "process_sale"
    /\ IF ses[s].result.ok
       THEN LAST_TRANSACTION_ID' =
                [LAST_TRANSACTION_ID EXCEPT ![s] = ses[s].result.value[2]]
       ELSE UNCHANGED LAST_TRANSACTION_ID
    /\ ses' = [ses EXCEPT ![s] =
                 [@ EXCEPT !.sale_result =
                               IF ses[s].result.ok
                               THEN Success(ses[s].result.value[2])
                               ELSE Failure(FailedMsg(ses[s].result.value)),
                           !.pc = "done"]]
    /\ UNCHANGED <<db, lock, ncalls, rs, inv, view, users, app>>

\* the caller has its answer; the session is ready for its next call
Finish(s) ==
    /\ \/ ses[s].pc = "done"
       \/ ses[s].pc = "returned" /\ ses[s].via = "direct"
    /\ ses' = [ses EXCEPT ![s] = IdleSession]
    /\ UNCHANGED <<db, lock, LAST_TRANSACTION_ID, ncalls, rs, inv, view, users, app>>

Next ==
    \E s \in Sessions :
        \/ ProcessSale(s)
        \/ DirectCall(s)
        \/ InsertTransaction(s)
        \/ InsertItem(s)
        \/ SelectStock(s)
        \/ UpdateStock(s)
        \/ StoreError(s)
        \/ Commit(s)
        \/ SaleReturn(s)
        \/ Finish(s)

Spec == Init /\ [][Next]_vars

TypeOK ==
    /\ lock \in Sessions \cup {NoSession}
    /\ ncalls \in 0..MaxCalls
    /\ \A p \in Products : db.booze[p].quantity_on_hand \in Int

\* ------------------------------------------------ console input and parsing
\* int(text): the number, or ValueError
ParseInt(str) ==
    IF str[1] = "int" THEN [ok |-> TRUE, value |-> str[2]]
    ELSE [ok |-> FALSE, value |-> 0]

\* what is typed at a product id prompt, a quantity prompt, a price prompt
\* and a stock-level prompt
IdInputs == {NotANumber, Typed(0)} \cup {Typed(p) : p \in ProductIds}
QtyInputs == {NotANumber, Typed(0 - 1)} \cup {Typed(q) : q \in 0..MaxQty}
PriceInputs ==
    {Blank, NotANumber, Typed(0 - 1), Typed(0), Typed(LinePrice(MissingId) + 1)}
StockInputs == {Blank, NotANumber, Typed(0 - 1)} \cup {Typed(q) : q \in 0..MaxStock}

\* ------------------------------------- stock accessor (database_manager.py)
\* get_stock_by_id: <<quantity_on_hand>>, or <<>> for None
GetStockById(store, product_id) ==
    IF product_id \in DOMAIN store.booze
    THEN <<store.booze[product_id].quantity_on_hand>> ELSE <<>>

\* adjust_stock: UPDATE booze SET quantity_on_hand = ? WHERE id = ?
AdjustedStore(store, product_id, new_quantity) ==
    IF product_id \in DOMAIN store.booze
    THEN [store EXCEPT !.booze[product_id].quantity_on_hand = new_quantity]
    ELSE store

\* cursor.rowcount of an UPDATE ... WHERE id = ?
RowCount(store, product_id) ==
    IF product_id \in DOMAIN store.booze THEN 1 ELSE 0

\* ------------------------------------ clerk operations: common bookkeeping
Begun(s, op, product_id_str, quantity_str, price_str) ==
    [NoOperation EXCEPT !.op = op, !.product_id_str = product_id_str,
                        !.quantity_str = quantity_str, !.price_str = price_str,
                        !.pre = db, !.started = inv[s].started + 1]

\* the operation returns ret to the menu
Ended(o, ret) == [o EXCEPT !.pc = "done", !.ret = ret]

ClerkIdle(s) ==
    /\ s \in ClerkSessions
    /\ inv[s].pc = "idle"
    /\ inv[s].started < MaxOps

\* ---------------------------- receive_new_stock (inventory_tracking.py)
\* line 34: if quantity_to_add < 0
ReceiveRefuses(quantity_to_add) == quantity_to_add < 0

\* lines 26-48: both prompts, the stock read, the new level
ReceiveNewStock(s) ==
    /\ ClerkIdle(s)
    /\ \E product_id_str \in IdInputs, quantity_str \in QtyInputs :
          LET o == Begun(s, "receive_new_stock", product_id_str, quantity_str, Blank)
              product_id == ParseInt(product_id_str)
              quantity_to_add == ParseInt(quantity_str)
              current_stock == GetStockById(db, product_id.value)
          IN inv' = [inv EXCEPT ![s] =
                IF ~product_id.ok THEN Ended(o, "False")
                ELSE IF ~quantity_to_add.ok \/ ReceiveRefuses(quantity_to_add.value)
                THEN Ended(o, "False")
                ELSE IF current_stock = <<>> THEN Ended(o, "False")
                ELSE [o EXCEPT !.pc = "adjust",
                               !.product_id = product_id.value,
                               !.current_stock = current_stock[1],
                               !.new_stock_level =
                                   current_stock[1] + quantity_to_add.value]]
    /\ UNCHANGED <<db, lock, ses, LAST_TRANSACTION_ID, ncalls, rs, view, users, app>>

\* ------------------------------ log_product_loss (inventory_tracking.py)
\* lines 124-135: negative, zero, more than the stock that was read
LossRefusesWholeStock(quantity_lost, current_stock) ==
    quantity_lost <= 0 \/ quantity_lost >= current_stock
LossRefuses(quantity_lost, current_stock) ==
    \/ quantity_lost < 0
    \/ quantity_lost = 0
    \/ quantity_lost > current_stock

\* lines 104-138: the id prompt, the stock read, the quantity prompt, the
\* checks, the new level
LogProductLoss(s) ==
    /\ ClerkIdle(s)
    /\ \E product_id_str \in IdInputs, quantity_str \in QtyInputs :
          LET o == Begun(s, "log_product_loss", product_id_str, quantity_str, Blank)
              product_id == ParseInt(product_id_str)
              current_stock == GetStockById(db, product_id.value)
              quantity_lost == ParseInt(quantity_str)
          IN inv' = [inv EXCEPT ![s] =
                IF ~product_id.ok THEN Ended(o, "False")
                ELSE IF current_stock = <<>> THEN Ended(o, "False")
                ELSE IF ~quantity_lost.ok THEN Ended(o, "False")
                ELSE IF LossRefuses(quantity_lost.value, current_stock[1])
                THEN Ended(o, "False")
                ELSE [o EXCEPT !.pc = "adjust",
                               !.product_id = product_id.value,
                               !.current_stock = current_stock[1],
                               !.new_stock_level =
                                   current_stock[1] - quantity_lost.value]]
    /\ UNCHANGED <<db, lock, ses, LAST_TRANSACTION_ID, ncalls, rs, view, users, app>>

\* database_manager.py lines 112-118 and the caller's lines 51-61 or
\* 141-151: adjust_stock writes the level computed from the earlier read,
\* commits and returns rowcount > 0, which the operation hands on
AdjustStock(s) ==
    /\ s \in ClerkSessions
    /\ inv[s].pc = "adjust"
    /\ lock = NoSession
    /\ db' = AdjustedStore(db, inv[s].product_id, inv[s].new_stock_level)
    /\ inv' = [inv EXCEPT ![s] =
                 Ended(@, IF RowCount(db, inv[s].product_id) > 0
                          THEN "True" ELSE "False")]
    /\ ses' = Disturb(s, ses)
    /\ UNCHANGED <<lock, LAST_TRANSACTION_ID, ncalls, rs, view, users, app>>

\* the store raises sqlite3.Error inside a single-statement write (lines
\* 119-120, 101-102, 496-497): nothing is committed, the operation fails
WriteSteps == {"adjust", "update", "insert"}

WriteError(s) ==
    /\ s \in ClerkSessions
    /\ inv[s].pc \in WriteSteps
    /\ inv' = [inv EXCEPT ![s] = Ended([@ EXCEPT !.exc = StoreErrorMsg], "False")]
    /\ UNCHANGED <<db, lock, ses, LAST_TRANSACTION_ID, ncalls, rs, view, users, app>>

\* ---------------------------- update_product_cli (product_management.py)
\* lookup_product_by_id: <<row>>, or <<>> when no row has the id
LookupProductById(store, product_id) ==
    IF product_id \in DOMAIN store.booze THEN <<store.booze[product_id]>> ELSE <<>>

\* _validate_numeric with min_value: (num, err); a blank answer keeps the
\* current value
ValidateNumericNoMin(val, min_value) ==
    IF val = Blank THEN [num |-> <<>>, err |-> FALSE]
    ELSE IF ~ParseInt(val).ok THEN [num |-> <<>>, err |-> TRUE]
    ELSE [num |-> <<ParseInt(val).value>>, err |-> FALSE]
ValidateNumeric(val, min_value) ==
    IF val = Blank THEN [num |-> <<>>, err |-> FALSE]
    ELSE IF ~ParseInt(val).ok THEN [num |-> <<>>, err |-> TRUE]
    ELSE IF ParseInt(val).value < min_value THEN [num |-> <<>>, err |-> TRUE]
    ELSE [num |-> <<ParseInt(val).value>>, err |-> FALSE]

\* _process_price_field, _process_quantity_field: min_value=0
MinPrice == 0
MinQuantity == 0

NoUpdate == [price |-> <<>>, quantity_on_hand |-> <<>>]

\* lines 366-390: the id prompt, the lookup, the field prompts (every field
\* but price and quantity is left blank), validation
UpdateProductCliWith(s, product_id_str, price_str, quantity_str) ==
    /\ ClerkIdle(s)
    /\    LET o == Begun(s, "update_product_cli", product_id_str, quantity_str,
                         price_str)
              product_id == ParseInt(product_id_str)
              found == LookupProductById(db, product_id.value)
              price == ValidateNumeric(price_str, MinPrice)
              qty == ValidateNumeric(quantity_str, MinQuantity)
              update_data == [price |-> price.num, quantity_on_hand |-> qty.num]
          IN inv' = [inv EXCEPT ![s] =
                IF ~product_id.ok THEN Ended(o, "False")
                ELSE IF found = <<>> THEN Ended(o, "False")
                ELSE IF price.err \/ qty.err THEN Ended(o, "False")
                ELSE IF update_data = NoUpdate THEN Ended(o, "False")
                ELSE [o EXCEPT !.pc = "update",
                               !.product_id = product_id.value,
                               !.update_data = update_data]]
    /\ UNCHANGED <<db, lock, ses, LAST_TRANSACTION_ID, ncalls, rs, view, users, app>>

\* update_product_cli with anything typed at its three prompts
UpdateProductCli(s) ==
    \E product_id_str \in IdInputs, price_str \in PriceInputs,
       quantity_str \in StockInputs :
       UpdateProductCliWith(s, product_id_str, price_str, quantity_str)

\* database_manager.py lines 483-488: UPDATE booze SET <fields> WHERE id = ?
UpdatedStoreRepricesSales(store, product_id, data) ==
    [store EXCEPT
        !.booze[product_id] =
            [price |-> IF data.price = <<>> THEN @.price ELSE data.price[1],
             quantity_on_hand |-> IF data.quantity_on_hand = <<>>
                                  THEN @.quantity_on_hand
                                  ELSE data.quantity_on_hand[1]],
        !.transaction_items =
            [k \in 1..Len(@) |->
                IF @[k].product_id = product_id /\ data.price # <<>>
                THEN [@[k] EXCEPT !.price_at_sale = data.price[1]]
                ELSE @[k]]]
UpdatedStore(store, product_id, data) ==
    [store EXCEPT
        !.booze[product_id] =
            [price |-> IF data.price = <<>> THEN @.price ELSE data.price[1],
             quantity_on_hand |-> IF data.quantity_on_hand = <<>>
                                  THEN @.quantity_on_hand
                                  ELSE data.quantity_on_hand[1]]]

\* database_manager.py lines 488-494 and product_management.py 392-398: no
\* row, "Product not found" without a commit; else commit and success
UpdateProductDetails(s) ==
    /\ s \in ClerkSessions
    /\ inv[s].pc = "update"
    /\ lock = NoSession
    /\ IF RowCount(db, inv[s].product_id) = 0
       THEN /\ inv' = [inv EXCEPT ![s] = Ended(@, "False")]
            /\ UNCHANGED <<db, ses>>
       ELSE /\ db' = UpdatedStore(db, inv[s].product_id, inv[s].update_data)
            /\ inv' = [inv EXCEPT ![s] = Ended(@, "True")]
            /\ ses' = Disturb(s, ses)
    /\ UNCHANGED <<lock, LAST_TRANSACTION_ID, ncalls, rs, view, users, app>>

\* ------------------------------- add_new_product (product_management.py)
\* validate_numeric_value: a blank answer is a ValueError of the conversion
ValidateNumericValue(value, min_value) ==
    IF ~ParseInt(value).ok THEN [num |-> <<>>, err |-> TRUE]
    ELSE IF ParseInt(value).value < min_value THEN [num |-> <<>>, err |-> TRUE]
    ELSE [num |-> <<ParseInt(value).value>>, err |-> FALSE]

\* booze.id INTEGER PRIMARY KEY AUTOINCREMENT; no product is ever deleted
NextProductId(store) == Cardinality(DOMAIN store.booze) + 1

\* lines 95-128: the prompts (name, brand and type are given, the optional
\* fields are skipped), validation, the data for the insert
AddNewProduct(s) ==
    /\ ClerkIdle(s)
    /\ NextProductId(db) \in ProductIds
    /\ \E price_str \in PriceInputs, quantity_str \in StockInputs :
          LET o == Begun(s, "add_new_product", Blank, quantity_str, price_str)
              price == ValidateNumericValue(price_str, MinPrice)
              quantity == ValidateNumericValue(quantity_str, MinQuantity)
          IN inv' = [inv EXCEPT ![s] =
                IF price.err \/ quantity.err THEN Ended(o, "False")
                ELSE [o EXCEPT !.pc = "insert",
                               !.update_data =
                                   [price |-> price.num,
                                    quantity_on_hand |-> quantity.num]]]
    /\ UNCHANGED <<db, lock, ses, LAST_TRANSACTION_ID, ncalls, rs, view, users, app>>

\* database_manager.py lines 83-97: INSERT INTO booze
InsertedStore(store, data) ==
    LET id == NextProductId(store)
    IN [store EXCEPT !.booze =
           [p \in DOMAIN @ \cup {id} |->
               IF p = id
               THEN [price |-> data.price[1],
                     quantity_on_hand |-> data.quantity_on_hand[1]]
               ELSE @[p]]]

\* database_manager.py lines 97-98 and product_management.py 131-135
InsertProduct(s) ==
    /\ s \in ClerkSessions
    /\ inv[s].pc = "insert"
    /\ lock = NoSession
    /\ db' = InsertedStore(db, inv[s].update_data)
    /\ inv' = [inv EXCEPT ![s] =
                 Ended([@ EXCEPT !.product_id = NextProductId(db)], "True")]
    /\ ses' = Disturb(s, ses)
    /\ UNCHANGED <<lock, LAST_TRANSACTION_ID, ncalls, rs, view, users, app>>

\* the operation has returned to the menu
OperationDone(s) ==
    /\ s \in ClerkSessions
    /\ inv[s].pc = "done"
    /\ inv' = [inv EXCEPT ![s] = [NoOperation EXCEPT !.started = inv[s].started]]
    /\ UNCHANGED <<db, lock, ses, LAST_TRANSACTION_ID, ncalls, rs, view, users, app>>

\* --------------------------------------------- cart builder (sales.py)
\* validate_product_input, validate_quantity_input: (is_valid, number)
ValidatePositiveOrZero(str) ==
    LET n == ParseInt(str)
    IN IF ~n.ok THEN [is_valid |-> FALSE, value |-> 0, error |-> <<"must be a valid number">>]
       ELSE IF n.value < 0
       THEN [is_valid |-> FALSE, value |-> 0, error |-> <<"must be a positive number">>]
       ELSE [is_valid |-> TRUE, value |-> n.value, error |-> <<>>]
ValidatePositive(str) ==
    LET n == ParseInt(str)
    IN IF ~n.ok THEN [is_valid |-> FALSE, value |-> 0, error |-> <<"must be a valid number">>]
       ELSE IF n.value <= 0
       THEN [is_valid |-> FALSE, value |-> 0, error |-> <<"must be a positive number">>]
       ELSE [is_valid |-> TRUE, value |-> n.value, error |-> <<>>]

\* get_product_details: <<row>> with id, price and quantity_on_hand, or <<>>
GetProductDetails(store, product_id) ==
    IF product_id \in DOMAIN store.booze
    THEN <<[id |-> product_id, price |-> store.booze[product_id].price,
            quantity_on_hand |-> store.booze[product_id].quantity_on_hand]>>
    ELSE <<>>

ProductNotFoundMsg(product_id) == <<"Product not found", product_id>>
\* "Insufficient stock ... Available, Already in cart, Requested, Total needed"
AvailabilityMsg(product_id, available, cart_quantity, requested, total) ==
    <<"Insufficient stock", product_id, available, cart_quantity, requested, total>>

\* sales.py line 72: if product["quantity_on_hand"] < total_requested
ShortOfStockIgnoringCart(on_hand, cart_quantity, requested) == on_hand < requested
ShortOfStock(on_hand, cart_quantity, requested) ==
    on_hand < cart_quantity + requested

\* check_stock_availability: (is_available, product, error_message)
CheckStockAvailability(store, product_id, requested_quantity, cart) ==
    LET product == GetProductDetails(store, product_id)
        cart_quantity == CartQty(cart, product_id)
        total_requested == cart_quantity + requested_quantity
    IN IF product = <<>>
       THEN [is_available |-> FALSE, product |-> <<>>,
             error |-> ProductNotFoundMsg(product_id)]
       ELSE IF ShortOfStock(product[1].quantity_on_hand, cart_quantity,
                            requested_quantity)
       THEN [is_available |-> FALSE, product |-> product,
             error |-> AvailabilityMsg(product_id, product[1].quantity_on_hand,
                                       cart_quantity, requested_quantity,
                                       total_requested)]
       ELSE [is_available |-> TRUE, product |-> product, error |-> <<>>]

\* sales.py lines 152-158: the line appended to the cart; its name and
\* current_stock entries are display caches no code reads back
NewCartLine(product, quantity) ==
    [product_id |-> product.id, quantity |-> quantity, price |-> product.price]

\* record_sale starts: an empty cart and the menu
RecordSale(s) ==
    /\ s \in SaleSessions
    /\ rs[s].pc = "none"
    /\ ses[s].pc = "idle"
    /\ rs[s].started < MaxSessions
    /\ rs' = [rs EXCEPT ![s] =
                [NoRecordSale EXCEPT !.pc = "menu", !.pre = db,
                                     !.pre_last = LAST_TRANSACTION_ID[s],
                                     !.calls0 = ncalls,
                                     !.started = rs[s].started + 1]]
    /\ UNCHANGED <<db, lock, ses, LAST_TRANSACTION_ID, ncalls, inv, view, users, app>>

\* the cart after handle_add_item_to_cart and what the step answered
AddStep(cart, product_id_str, quantity_str) ==
    LET asked == [NoStep EXCEPT !.kind = "add",
                                !.product_id_str = product_id_str,
                                !.quantity_str = quantity_str]
        product_id == ValidatePositive(product_id_str)
        quantity == ValidatePositive(quantity_str)
        checked == CheckStockAvailability(db, product_id.value, quantity.value, cart)
    IN IF ~product_id.is_valid
       THEN [cart |-> cart, last |-> [asked EXCEPT !.error = product_id.error]]
       ELSE IF ~quantity.is_valid
       THEN [cart |-> cart, last |-> [asked EXCEPT !.error = quantity.error]]
       ELSE IF ~checked.is_available
       THEN [cart |-> cart, last |-> [asked EXCEPT !.error = checked.error]]
       ELSE [cart |-> Append(cart, NewCartLine(checked.product[1], quantity.value)),
             last |-> [asked EXCEPT !.accepted = TRUE]]

\* choice '1': handle_add_item_to_cart
AddItemToCart(s) ==
    /\ s \in SaleSessions
    /\ rs[s].pc = "menu"
    /\ \E product_id_str \in IdInputs, quantity_str \in QtyInputs :
          LET step == AddStep(rs[s].cart, product_id_str, quantity_str)
          IN /\ Len(step.cart) <= MaxCartLen
             /\ rs' = [rs EXCEPT ![s] =
                          [@ EXCEPT !.cart = step.cart, !.last = step.last]]
    /\ UNCHANGED <<db, lock, ses, LAST_TRANSACTION_ID, ncalls, inv, view, users, app>>

\* choice '2' shows the cart; any other text is "Invalid choice"
OtherChoices == {"view", "invalid"}

ViewCart(s) ==
    /\ s \in SaleSessions
    /\ rs[s].pc = "menu"
    /\ \E kind \in OtherChoices :
          rs' = [rs EXCEPT ![s] = [@ EXCEPT !.last = [NoStep EXCEPT !.kind = kind]]]
    /\ UNCHANGED <<db, lock, ses, LAST_TRANSACTION_ID, ncalls, inv, view, users, app>>

\* sales.py line 174: if confirm == 'y'
ConfirmedAlways(confirm) == TRUE
Confirmed(confirm) == confirm = "y"

\* sales.py line 165: if not cart
NothingToSell(cart) == cart = <<>>

\* choice '3': handle_complete_sale up to the call of process_sale.  An
\* empty cart returns None and the menu comes back; 'y' goes on to
\* process_sale; any other answer returns False
CompleteSale(s) ==
    /\ s \in SaleSessions
    /\ rs[s].pc = "menu"
    /\ IF NothingToSell(rs[s].cart)
       THEN rs' = [rs EXCEPT ![s] =
                     [@ EXCEPT !.last = [NoStep EXCEPT !.kind = "complete"]]]
       ELSE \E confirm \in {"y", "n"} :
               rs' = [rs EXCEPT ![s] =
                        [@ EXCEPT !.last = [NoStep EXCEPT !.kind = "complete",
                                                          !.confirm = confirm],
                                  !.pc = IF Confirmed(confirm)
                                         THEN "selling" ELSE "ended",
                                  !.ret = IF Confirmed(confirm)
                                          THEN "none" ELSE "False"]]
    /\ UNCHANGED <<db, lock, ses, LAST_TRANSACTION_ID, ncalls, inv, view, users, app>>

\* sales.py line 176: process_sale(cart)
CallProcessSale(s) ==
    /\ s \in SaleSessions
    /\ rs[s].pc = "selling"
    /\ ses[s].pc = "idle"
    /\ ProcessSaleCart(s, rs[s].cart)

\* sales.py lines 177-181 and 218-219: handle_complete_sale returns what
\* process_sale answered and record_sale returns it
ReturnOfSaleInverted(success) == IF success THEN "False" ELSE "True"
ReturnOfSale(success) == IF success THEN "True" ELSE "False"

CompleteReturn(s) ==
    /\ s \in SaleSessions
    /\ rs[s].pc = "selling"
    /\ ses[s].pc = "done"
    /\ rs' = [rs EXCEPT ![s] =
                [@ EXCEPT !.pc = "ended",
                          !.ret = ReturnOfSale(ses[s].sale_result.ok)]]
    /\ UNCHANGED <<db, lock, ses, LAST_TRANSACTION_ID, ncalls, inv, view, users, app>>

\* choice '0': "Sale cancelled.", return False
Cancel(s) ==
    /\ s \in SaleSessions
    /\ rs[s].pc = "menu"
    /\ rs' = [rs EXCEPT ![s] =
                [@ EXCEPT !.pc = "ended", !.ret = "False",
                          !.last = [NoStep EXCEPT !.kind = "cancel"]]]
    /\ UNCHANGED <<db, lock, ses, LAST_TRANSACTION_ID, ncalls, inv, view, users, app>>

\* record_sale has returned; the cart is gone
EndRecordSale(s) ==
    /\ s \in SaleSessions
    /\ rs[s].pc = "ended"
    /\ rs' = [rs EXCEPT ![s] = [NoRecordSale EXCEPT !.started = rs[s].started]]
    /\ ses' = [ses EXCEPT ![s] = IdleSession]
    /\ UNCHANGED <<db, lock, LAST_TRANSACTION_ID, ncalls, inv, view, users, app>>

\* one process running record_sale sessions one after the other
SessionNext ==
    \E s \in SaleSessions :
        \/ RecordSale(s)
        \/ AddItemToCart(s)
        \/ ViewCart(s)
        \/ CompleteSale(s)
        \/ Cancel(s)
        \/ CallProcessSale(s)
        \/ InsertTransaction(s)
        \/ InsertItem(s)
        \/ SelectStock(s)
        \/ UpdateStock(s)
        \/ StoreError(s)
        \/ Commit(s)
        \/ SaleReturn(s)
        \/ CompleteReturn(s)
        \/ EndRecordSale(s)

SessionSpec == Init /\ [][SessionNext]_vars

\* ------------------------------------------------------ claim vocabulary
\* process_sale_transaction was invoked by session s and has returned
Returned(s) == ses[s].pc \in {"returned", "done"} /\ ses[s].conn # "none"

\* the call of session s is between its entry and its return
InFlight(s) == ses[s].pc \in StoreSteps

\* the committed store equals the store at the entry of s's call
StoreAsBefore(s) ==
    /\ db.transactions = ses[s].pre.transactions
    /\ db.transaction_items = ses[s].pre.transaction_items
    /\ \A p \in Products :
          db.booze[p].quantity_on_hand = ses[s].pre.booze[p].quantity_on_hand

StockOf(store, p) == store.booze[p].quantity_on_hand

IsInsufficient(r) == ~r.ok /\ r.value[1] = "insufficient stock"
IsStoreError(r) == ~r.ok /\ r.value = StoreErrorMsg

\* the item rows a cart adds under transaction id tid after n existing rows
ItemRows(cart, tid, n) ==
    [k \in 1..Len(cart) |->
        [item_id |-> n + k, transaction_id |-> tid,
         product_id |-> cart[k].product_id, quantity |-> cart[k].quantity,
         price_at_sale |-> cart[k].price]]

\* sum of quantity * price_at_sale over the item rows of transaction tid
RECURSIVE ItemsTotal(_, _)
ItemsTotal(rows, tid) ==
    IF rows = <<>> THEN 0
    ELSE (IF rows[1].transaction_id = tid
          THEN rows[1].quantity * rows[1].price_at_sale ELSE 0)
         + ItemsTotal(Tail(rows), tid)

\* C1: a process_sale_transaction call that returned failure has left the
\* Transaction rows, the TransactionItem rows and every product's stock
\* exactly as they were before the call, whichever line failed (as long as
\* no other session committed in between).
C1_FailedSaleLeavesStoreUnchanged ==
    \A s \in Sessions :
        (Returned(s) /\ ~ses[s].result.ok /\ ses[s].clean) => StoreAsBefore(s)

\* a call failed on its second line for insufficient stock, after the header
\* row, two item rows and the first line's decrement had been written
C1_Witness ==
    \E s \in Sessions :
        /\ Returned(s) /\ ses[s].clean
        /\ IsInsufficient(ses[s].result)
        /\ ses[s].idx = 2
        /\ StoreAsBefore(s)

\* C2: from non-negative stock, after any sequence of sale commits every
\* product's quantity_on_hand is still >= 0, in the committed store and in
\* the uncommitted writes of a running call; a call that met a stock too
\* small for one of its lines is rejected in full.
C2_StockNeverNegative ==
    /\ \A p \in Products : StockOf(db, p) >= 0
    /\ \A s \in Sessions :
          /\ lock = s => \A p \in Products : StockOf(ses[s].work, p) >= 0
          /\ (Returned(s) /\ IsInsufficient(ses[s].result))
                => /\ ~ses[s].result.ok
                   /\ ses[s].clean => StoreAsBefore(s)

\* a call that would have taken a product below 0 has been rejected
C2_Witness ==
    \E s \in Sessions :
        /\ Returned(s) /\ ses[s].clean
        /\ IsInsufficient(ses[s].result)
        /\ ses[s].result.value[3] - ses[s].result.value[4] < 0
        /\ \A p \in Products : StockOf(db, p) >= 0

\* C3: two calls that started from the same committed store and both
\* succeeded requested together no more of any product than that store
\* held, and the stock left is what it held minus both requests; so with
\* stock enough for only one of them at most one succeeds, and the stock is
\* never negative.
C3_InterleavedSalesNotBothServed ==
    \A a, b \in Sessions :
        (/\ a # b
         /\ Returned(a) /\ Returned(b)
         /\ ses[a].pre = ses[b].pre
         /\ ses[a].result.ok /\ ses[b].result.ok)
        => \A p \in Products :
              /\ CartQty(ses[a].cart_items, p) + CartQty(ses[b].cart_items, p)
                    <= StockOf(ses[a].pre, p)
              /\ StockOf(db, p) = StockOf(ses[a].pre, p)
                    - CartQty(ses[a].cart_items, p) - CartQty(ses[b].cart_items, p)
              /\ StockOf(db, p) >= 0

\* two interleaved single-line calls on one product, each within the stock,
\* together beyond it: one succeeded, the other was refused for stock
C3_Witness ==
    \E a, b \in Sessions : \E p \in Products :
        /\ a # b
        /\ Returned(a) /\ Returned(b)
        /\ ses[a].pre = ses[b].pre
        /\ Len(ses[a].cart_items) = 1 /\ Len(ses[b].cart_items) = 1
        /\ ses[a].cart_items[1].product_id = p
        /\ ses[b].cart_items[1].product_id = p
        /\ ses[a].cart_items[1].quantity <= StockOf(ses[a].pre, p)
        /\ ses[b].cart_items[1].quantity <= StockOf(ses[a].pre, p)
        /\ ses[a].cart_items[1].quantity + ses[b].cart_items[1].quantity
              > StockOf(ses[a].pre, p)
        /\ ses[a].result.ok
        /\ IsInsufficient(ses[b].result)
        /\ StockOf(db, p) = StockOf(ses[a].pre, p) - ses[a].cart_items[1].quantity

\* C4: a successful call on a cart of n lines has added exactly one
\* Transaction row and n TransactionItem rows (one per line, in cart order,
\* with the line's product, quantity and price and the new transaction id),
\* has reduced each product's stock by the quantity the cart requests of it
\* (by nothing for a product the cart does not name) and has returned the id
\* of the new row; before its commit none of this is in the committed store.
C4_SuccessfulSaleEffects ==
    \A s \in Sessions :
        /\ (Returned(s) /\ ses[s].result.ok /\ ses[s].clean) =>
              LET tid == ses[s].result.value[2]
                  pre == ses[s].pre
              IN /\ Len(db.transactions) = Len(pre.transactions) + 1
                 /\ SubSeq(db.transactions, 1, Len(pre.transactions))
                       = pre.transactions
                 /\ db.transactions[Len(db.transactions)].transaction_id = tid
                 /\ \A k \in 1..Len(pre.transactions) :
                       pre.transactions[k].transaction_id # tid
                 /\ db.transaction_items =
                       pre.transaction_items
                       \o ItemRows(ses[s].cart_items, tid,
                                   Len(pre.transaction_items))
                 /\ \A p \in Products :
                       StockOf(db, p) =
                           StockOf(pre, p) - CartQty(ses[s].cart_items, p)
        /\ (InFlight(s) /\ ses[s].clean) => StoreAsBefore(s)

\* a two-line cart that names one product twice was committed on a store
\* that already held a transaction
C4_Witness ==
    \E s \in Sessions :
        /\ Returned(s) /\ ses[s].result.ok /\ ses[s].clean
        /\ Len(ses[s].cart_items) = 2
        /\ ses[s].cart_items[1].product_id = ses[s].cart_items[2].product_id
        /\ Len(db.transaction_items) = Len(ses[s].pre.transaction_items) + 2
        /\ Len(ses[s].pre.transactions) > 0

\* C5: of two sequential single-line calls on one product with stock s,
\* quantities q1 <= s then q2 > s - q1, the first succeeds and leaves
\* s - q1, the second is refused with "insufficient stock: available s - q1,
\* requested q2", and the stock stays s - q1.
C5_SecondSaleSeesFirst ==
    \A a, b \in Sessions : \A p \in Products :
        (/\ a # b
         /\ Returned(a) /\ Returned(b)
         /\ ses[a].clean /\ ses[b].clean
         /\ ~IsStoreError(ses[a].result) /\ ~IsStoreError(ses[b].result)
         /\ Len(ses[a].cart_items) = 1 /\ Len(ses[b].cart_items) = 1
         /\ ses[a].cart_items[1].product_id = p
         /\ ses[b].cart_items[1].product_id = p
         /\ ses[a].cart_items[1].quantity <= StockOf(ses[a].pre, p)
         /\ ses[b].cart_items[1].quantity
               > StockOf(ses[a].pre, p) - ses[a].cart_items[1].quantity)
        => LET s0 == StockOf(ses[a].pre, p)
               q1 == ses[a].cart_items[1].quantity
               q2 == ses[b].cart_items[1].quantity
           IN /\ ses[a].result.ok
              /\ StockOf(ses[b].pre, p) = s0 - q1
              /\ ses[b].result = Failure(InsufficientMsg(p, s0 - q1, q2))
              /\ StockOf(db, p) = s0 - q1

\* stock 2, quantities 1 then 2: the second call is refused against 1
C5_Witness ==
    \E a, b \in Sessions : \E p \in Products :
        /\ a # b
        /\ Returned(a) /\ Returned(b)
        /\ ses[a].clean /\ ses[b].clean
        /\ ses[a].cart_items = <<[product_id |-> p, quantity |-> 1,
                                  price |-> LinePrice(p)]>>
        /\ ses[b].cart_items = <<[product_id |-> p, quantity |-> 2,
                                  price |-> LinePrice(p)]>>
        /\ StockOf(ses[a].pre, p) = 2
        /\ ses[a].result.ok
        /\ ses[b].result = Failure(InsufficientMsg(p, 1, 2))
        /\ StockOf(db, p) = 1

\* the cart lines that name a product with no row in the catalog
MissingLines(cart) == {k \in 1..Len(cart) : cart[k].product_id \notin Products}
FirstMissing(cart) ==
    CHOOSE k \in MissingLines(cart) : \A j \in MissingLines(cart) : k <= j

\* C6 as stated: whenever a cart line names a product id with no row, the
\* call (the store raising no error) fails with "product not found" naming
\* that id, and nothing is persisted.
C6_Original ==
    \A s \in Sessions :
        (/\ Returned(s)
         /\ MissingLines(ses[s].cart_items) # {}
         /\ ~IsStoreError(ses[s].result))
        => /\ \E k \in MissingLines(ses[s].cart_items) :
                 ses[s].result =
                     Failure(NotFoundMsg(ses[s].cart_items[k].product_id))
           /\ ses[s].clean => StoreAsBefore(s)

\* C6 amended: whenever a cart line names a product id with no row, the call
\* fails and nothing is persisted; the reason is "product not found" naming
\* the id of the first such line, unless a line before it was refused for
\* insufficient stock or the store raised an error, and then the reason is
\* that refusal or that error.
C6_MissingProductFailsSale ==
    \A s \in Sessions :
        (Returned(s) /\ MissingLines(ses[s].cart_items) # {})
        => LET cart == ses[s].cart_items
               k == FirstMissing(cart)
               r == ses[s].result
           IN /\ ~r.ok
              /\ ses[s].clean => StoreAsBefore(s)
              /\ \/ r = Failure(NotFoundMsg(cart[k].product_id))
                 \/ IsStoreError(r)
                 \/ /\ IsInsufficient(r)
                    /\ ses[s].idx < k
                    /\ r.value[2] = cart[ses[s].idx].product_id
                    /\ r.value[4] = cart[ses[s].idx].quantity
              /\ (k = 1 /\ ~IsStoreError(r))
                    => r = Failure(NotFoundMsg(cart[1].product_id))

\* a cart whose second line names a missing product was refused for it after
\* the first line's item row and stock decrement had been written
C6_Witness ==
    \E s \in Sessions :
        /\ Returned(s) /\ ses[s].clean
        /\ Len(ses[s].cart_items) = 2
        /\ ses[s].cart_items[1].product_id \in Products
        /\ ses[s].cart_items[2].product_id = MissingId
        /\ ses[s].result = Failure(NotFoundMsg(MissingId))
        /\ StoreAsBefore(s)

\* C7: a call in which the store raised an error has returned (False, the
\* error's message) with its connection closed and the write lock released,
\* and has left no Transaction row, TransactionItem row or stock change.
C7_StoreErrorRollsBack ==
    \A s \in Sessions :
        (ses[s].pc \in {"returned", "done"} /\ ses[s].exc = StoreErrorMsg)
        => /\ ses[s].result = Failure(StoreErrorMsg)
           /\ ses[s].conn = "closed"
           /\ lock # s
           /\ ses[s].clean => StoreAsBefore(s)

\* the store raised its error at the commit of a two-line cart, after the
\* header row, both item rows and both stock writes
C7_Witness ==
    \E s \in Sessions :
        /\ Returned(s) /\ ses[s].clean
        /\ ses[s].exc = StoreErrorMsg
        /\ Len(ses[s].cart_items) = 2
        /\ ses[s].idx = 3
        /\ ses[s].result = Failure(StoreErrorMsg)
        /\ StoreAsBefore(s)

\* C8: process_sale called with an empty cart has answered failure "empty
\* cart" at once: process_sale_transaction was not invoked, no connection
\* was opened, the store and LAST_TRANSACTION_ID are as before the call.
C8_EmptyCartRefusedWithoutStoreAccess ==
    \A s \in Sessions :
        (/\ ses[s].pc # "idle"
         /\ ses[s].via = "process_sale"
         /\ ses[s].cart_items = <<>>)
        => /\ ses[s].pc = "done"
           /\ ses[s].sale_result = Failure(EmptyCartMsg)
           /\ ses[s].conn = "none"
           /\ ses[s].transaction_id = NoId
           /\ ses[s].result = NoResult
           /\ lock # s
           /\ LAST_TRANSACTION_ID[s] = ses[s].pre_last
           /\ ses[s].clean => StoreAsBefore(s)

\* an empty cart was refused in a process whose earlier sale had set
\* LAST_TRANSACTION_ID
C8_Witness ==
    \E s \in Sessions :
        /\ ses[s].pc = "done"
        /\ ses[s].via = "process_sale"
        /\ ses[s].cart_items = <<>>
        /\ ses[s].sale_result = Failure(EmptyCartMsg)
        /\ LAST_TRANSACTION_ID[s] # None
        /\ LAST_TRANSACTION_ID[s] = ses[s].pre_last
        /\ Len(db.transactions) = 1

C10_StoredTotalIsSumOfLines ==
    \A s \in Sessions :
        (Returned(s) /\ ses[s].via = "process_sale" /\ ses[s].result.ok)
        => LET tid == ses[s].result.value[2]
           IN /\ tid \in 1..Len(db.transactions)
              /\ db.transactions[tid].transaction_id = tid
              /\ db.transactions[tid].total_amount = SumTotal(ses[s].cart_items)
              /\ db.transactions[tid].total_amount =
                    ItemsTotal(db.transaction_items, tid)

\* a two-line sale with a line of quantity 2 and lines of different prices
\* was committed through process_sale
C10_Witness ==
    \E s \in Sessions :
        /\ Returned(s) /\ ses[s].via = "process_sale" /\ ses[s].result.ok
        /\ Len(ses[s].cart_items) = 2
        /\ ses[s].cart_items[1].quantity = 2
        /\ ses[s].cart_items[1].price # ses[s].cart_items[2].price
        /\ db.transactions[ses[s].result.value[2]].total_amount
              = 2 * ses[s].cart_items[1].price + ses[s].cart_items[2].price

\* ------------------------------------------------ sales and stock keeping
\* one process selling through process_sale while a clerk process receives
\* stock, logs losses, edits products and adds a product
ProcessSaleOneLine(s) ==
    /\ s \in SaleSessions
    /\ ses[s].pc = "idle"
    /\ ncalls < MaxCalls
    /\ \E cart \in OneLineCarts : ProcessSaleCart(s, cart)

StockNext ==
    \/ \E s \in SaleSessions :
          \/ ProcessSaleOneLine(s)
          \/ InsertTransaction(s)
          \/ InsertItem(s)
          \/ SelectStock(s)
          \/ UpdateStock(s)
          \/ StoreError(s)
          \/ Commit(s)
          \/ SaleReturn(s)
          \/ Finish(s)
    \/ \E s \in ClerkSessions :
          \/ ReceiveNewStock(s)
          \/ LogProductLoss(s)
          \/ AdjustStock(s)
          \/ UpdateProductCli(s)
          \/ UpdateProductDetails(s)
          \/ AddNewProduct(s)
          \/ InsertProduct(s)
          \/ WriteError(s)
          \/ OperationDone(s)

StockSpec == Init /\ [][StockNext]_vars

\* ------------------------------------------- claim vocabulary: cart builder
\* this step of session s is an add-to-cart request
IsAddStep(s) ==
    /\ rs[s].pc = "menu" /\ rs'[s].pc = "menu"
    /\ rs'[s].last.kind = "add"
    /\ rs'[s] # rs[s]

\* record_sale of session s was abandoned: choice 0, or the confirmation
\* was answered with something other than 'y'
Abandoned(s) ==
    /\ rs[s].pc = "ended"
    /\ \/ rs[s].last.kind = "cancel"
       \/ rs[s].last.kind = "complete" /\ rs[s].last.confirm # "y"

\* nothing of the store or of LAST_TRANSACTION_ID differs from the start of
\* the record_sale session, and process_sale was not called in it
NoTraceOfSession(s) ==
    /\ db = rs[s].pre
    /\ LAST_TRANSACTION_ID[s] = rs[s].pre_last
    /\ ncalls = rs[s].calls0
    /\ ses[s] = IdleSession
    /\ lock = NoSession

\* C11: an add-to-cart request for product p with quantity r (both positive
\* integers) is accepted if and only if p has a row and r plus the
\* quantities of the cart lines already naming p is <= p's quantity_on_hand
\* in the store at that moment, equality included; an accepted request
\* appends one line with p, r and p's price; a rejected one leaves the cart
\* unchanged, and when p exists its message reports available, already in
\* cart, requested and total needed; a request that is not two positive
\* integers is rejected with the cart unchanged; the store is only read.
C11_AddToCartChecksLiveStock ==
    [][\A s \in SaleSessions :
          IsAddStep(s) =>
             LET step == rs'[s].last
                 p == ParseInt(step.product_id_str)
                 r == ParseInt(step.quantity_str)
                 cart == rs[s].cart
             IN /\ db' = db
                /\ IF p.ok /\ r.ok /\ p.value > 0 /\ r.value > 0
                   THEN LET exists == p.value \in DOMAIN db.booze
                            inCart == CartQty(cart, p.value)
                        IN /\ step.accepted <=>
                                 (exists /\ r.value + inCart
                                      <= db.booze[p.value].quantity_on_hand)
                           /\ step.accepted =>
                                 rs'[s].cart =
                                     Append(cart,
                                            [product_id |-> p.value,
                                             quantity |-> r.value,
                                             price |-> db.booze[p.value].price])
                           /\ ~step.accepted => rs'[s].cart = cart
                           /\ (exists /\ ~step.accepted) =>
                                 step.error =
                                     AvailabilityMsg(
                                         p.value,
                                         db.booze[p.value].quantity_on_hand,
                                         inCart, r.value, inCart + r.value)
                           /\ ~exists => step.error = ProductNotFoundMsg(p.value)
                   ELSE ~step.accepted /\ rs'[s].cart = cart]_vars

\* with stock 2 and two lines of one unit each of a product in the cart (the
\* second accepted at equality), a request for one more unit was rejected:
\* available 2, already in cart 2, requested 1, total needed 3
C11_Witness ==
    \E s \in SaleSessions : \E p \in Products :
        /\ rs[s].pc = "menu"
        /\ Len(rs[s].cart) = 2
        /\ \A k \in 1..2 : rs[s].cart[k].product_id = p /\ rs[s].cart[k].quantity = 1
        /\ db.booze[p].quantity_on_hand = 2
        /\ rs[s].last.kind = "add" /\ ~rs[s].last.accepted
        /\ rs[s].last.error = AvailabilityMsg(p, 2, 2, 1, 3)

\* C12: in a record_sale session, while the cart is being built and after
\* the session was abandoned (choice 0, or the confirmation declined), the
\* transactions, the transaction items, every product's stock and
\* LAST_TRANSACTION_ID are what they were when the session started, and
\* process_sale has not been called.
C12_AbandonedCartLeavesNoTrace ==
    \A s \in SaleSessions :
        (rs[s].pc = "menu" \/ Abandoned(s)) => NoTraceOfSession(s)

\* a two-line cart was built and its confirmation declined, in a process
\* whose earlier session had sold
C12_Witness ==
    \E s \in SaleSessions :
        /\ Abandoned(s)
        /\ rs[s].last.kind = "complete" /\ rs[s].last.confirm = "n"
        /\ Len(rs[s].cart) = 2
        /\ LAST_TRANSACTION_ID[s] # None
        /\ Len(db.transactions) = 1
        /\ NoTraceOfSession(s)

\* the ids of the Transaction rows of a store
TransactionIds(store) ==
    {store.transactions[j].transaction_id : j \in 1..Len(store.transactions)}

\* C13: in every committed store state reached by process_sale_transaction
\* calls, successful or failed, the transaction_id of every TransactionItem
\* row is the id of a Transaction row of that state; the same holds of what
\* a running call has written so far.
C13_ItemNeverWithoutHeader ==
    /\ \A k \in 1..Len(db.transaction_items) :
          db.transaction_items[k].transaction_id \in TransactionIds(db)
    /\ \A s \in Sessions :
          lock = s =>
             \A k \in 1..Len(ses[s].work.transaction_items) :
                ses[s].work.transaction_items[k].transaction_id
                    \in TransactionIds(ses[s].work)

\* a call failed after it had written item rows, on a store that holds the
\* item rows of a committed sale
C13_Witness ==
    \E s \in Sessions :
        /\ Returned(s) /\ ~ses[s].result.ok
        /\ ses[s].idx = 2
        /\ Len(db.transaction_items) > 0
        /\ Len(db.transactions) = 1

\* ------------------------------------------ claim vocabulary: stock keeping
\* the clerk's operation op has returned ret
ClerkReturned(s, op, ret) ==
    inv[s].pc = "done" /\ inv[s].op = op /\ inv[s].ret = ret

\* C14: from non-negative stock, however sale commits interleave with
\* receive_new_stock, log_product_loss, update_product_cli and
\* add_new_product, every product of the committed store, the added ones
\* included, has quantity_on_hand >= 0.
C14_CommittedStockNeverNegative ==
    \A p \in DOMAIN db.booze : db.booze[p].quantity_on_hand >= 0

\* a loss was logged from a stock read before a sale committed and written
\* after it, and took the product to 0
C14_Witness ==
    \E s \in ClerkSessions :
        /\ ClerkReturned(s, "log_product_loss", "True")
        /\ Len(db.transactions) > Len(inv[s].pre.transactions)
        /\ StockOf(db, inv[s].product_id) = 0
        /\ inv[s].current_stock > 0

\* C15: no step of any operation changes a committed sale; in particular a
\* price change written by update_product_details leaves the price_at_sale of
\* every TransactionItem row and the total_amount of every Transaction row
\* of the store as they were.
C15_PriceChangeLeavesSalesAlone ==
    [][/\ Len(db'.transaction_items) >= Len(db.transaction_items)
       /\ \A k \in 1..Len(db.transaction_items) :
             db'.transaction_items[k].price_at_sale =
                 db.transaction_items[k].price_at_sale
       /\ Len(db'.transactions) >= Len(db.transactions)
       /\ \A k \in 1..Len(db.transactions) :
             db'.transactions[k].total_amount = db.transactions[k].total_amount
       /\ \A s \in ClerkSessions :
             inv[s].pc = "update" /\ inv'[s].pc = "done"
                => /\ db'.transaction_items = db.transaction_items
                   /\ db'.transactions = db.transactions]_vars

\* update_product_details has changed the price of a product that a sale
\* committed before the update began had sold at another price
C15_Witness ==
    \E s \in ClerkSessions :
        /\ ClerkReturned(s, "update_product_cli", "True")
        /\ inv[s].update_data.price # <<>>
        /\ db.booze[inv[s].product_id].price = inv[s].update_data.price[1]
        /\ \E k \in 1..Len(inv[s].pre.transaction_items) :
              /\ db.transaction_items[k] = inv[s].pre.transaction_items[k]
              /\ db.transaction_items[k].product_id = inv[s].product_id
              /\ db.transaction_items[k].price_at_sale
                    # db.booze[inv[s].product_id].price
              /\ db.transaction_items[k].price_at_sale
                    = inv[s].pre.booze[inv[s].product_id].price

\* process_sale_transaction returns success to session s in this step
CommitsNow(s) ==
    /\ ses[s].pc = "commit"
    /\ ses'[s].pc = "returned"
    /\ ses'[s].result.ok

\* C16: a Transaction row is created by exactly the steps in which a
\* process_sale_transaction call returns success, one row each: a call that
\* fails and every step of a stock or product operation leave the table as
\* it is, and the rows already there are never modified or deleted.
C16_OneTransactionRowPerSuccess ==
    [][/\ (\E s \in Sessions : CommitsNow(s))
            => Len(db'.transactions) = Len(db.transactions) + 1
       /\ (\A s \in Sessions : ~CommitsNow(s))
            => db'.transactions = db.transactions
       /\ \A s \in Sessions :
             (ses[s].pc \in StoreSteps /\ ses'[s].pc = "returned"
                                      /\ ~ses'[s].result.ok)
                => db'.transactions = db.transactions
       /\ \A s \in ClerkSessions :
             inv'[s] # inv[s] => db'.transactions = db.transactions
       /\ \A k \in 1..Len(db.transactions) :
             /\ k <= Len(db'.transactions)
             /\ db'.transactions[k] = db.transactions[k]]_vars

\* two calls have succeeded and one clerk operation has written since the
\* first: two rows, the first as it was committed
C16_Witness ==
    /\ Len(db.transactions) = 2
    /\ \E s \in ClerkSessions :
          /\ inv[s].pc = "done" /\ inv[s].ret = "True"
          /\ Len(inv[s].pre.transactions) = 1
          /\ inv[s].pre.transactions[1] = db.transactions[1]
          /\ inv[s].pre.booze # db.booze

\* ------------------------------------------------ the call runs to its end
\* one statement of the try block of session s's call: it completes or it
\* raises
EngineStep(s) ==
    \/ InsertTransaction(s)
    \/ InsertItem(s)
    \/ SelectStock(s)
    \/ UpdateStock(s)
    \/ Commit(s)
    \/ StoreError(s)

\* process_sale_transaction called by another caller with a one-line cart
DirectCallOneLine(s) ==
    /\ s \in DirectSessions
    /\ ses[s].pc = "idle"
    /\ ncalls < MaxCalls
    /\ \E cart \in OneLineCarts : Enter(s, "direct", cart, SumPrices(cart))

\* a selling process with carts of every length beside another caller
FairNext ==
    \E s \in Sessions :
        \/ ProcessSale(s)
        \/ DirectCallOneLine(s)
        \/ EngineStep(s)
        \/ SaleReturn(s)
        \/ Finish(s)

\* the call is synchronous and has no wait of its own: the interpreter
\* executes its next statement, and a statement that waits for the write
\* lock gives up with "database is locked" when the connection's timeout
\* expires
FairSpec ==
    Init /\ [][FairNext]_vars /\ \A s \in Sessions : WF_vars(EngineStep(s))

\* every effect of the call of session s is in the committed store
FullyApplied(s) ==
    LET pre == ses[s].pre
    IN /\ Len(db.transactions) = Len(pre.transactions) + 1
       /\ Len(db.transaction_items)
             = Len(pre.transaction_items) + Len(ses[s].cart_items)
       /\ \A p \in Products :
             StockOf(db, p) = StockOf(pre, p) - CartQty(ses[s].cart_items, p)

\* the call of session s has ended: its connection is closed, it holds no
\* lock and no uncommitted write, and it either succeeded with every effect
\* committed or failed with none (the store compared as long as no other
\* session committed meanwhile)
EndedWhole(s) ==
    /\ ses[s].conn = "closed"
    /\ lock # s
    /\ ses[s].work = NoDb
    /\ ses[s].clean =>
          IF ses[s].result.ok THEN FullyApplied(s) /\ ~StoreAsBefore(s)
          ELSE StoreAsBefore(s) /\ ~FullyApplied(s)

\* C17: every call of process_sale_transaction that has begun comes to its
\* return, and a call that has returned has either succeeded with all its
\* effects committed or failed with all of them rolled back, its connection
\* closed in both cases; the write lock and an open connection belong only
\* to calls still running.
C17_CallEndsCommittedOrRolledBack ==
    /\ [](\A s \in Sessions :
             /\ Returned(s) => EndedWhole(s)
             /\ lock = s => InFlight(s)
             /\ ses[s].conn = "open" <=> InFlight(s))
    /\ \A s \in Sessions : InFlight(s) ~> Returned(s)

\* both outcomes at once: one call has returned success and the other has
\* returned failure after it had written its header row, both closed
C17_Witness ==
    \E a, b \in Sessions :
        /\ Returned(a) /\ ses[a].result.ok /\ ses[a].conn = "closed"
        /\ Returned(b) /\ ~ses[b].result.ok /\ ses[b].conn = "closed"
        /\ IsInsufficient(ses[b].result)
        /\ lock = NoSession

\* ------------------------------------------- a clerk alone with the store
\* losses logged by the only process that touches the store
LossNext ==
    \E s \in ClerkSessions :
        \/ LogProductLoss(s)
        \/ AdjustStock(s)
        \/ WriteError(s)
        \/ OperationDone(s)

LossSpec == Init /\ [][LossNext]_vars

\* what was typed names a product of store and a quantity q with
\* 0 < q <= that product's stock
LossIsValid(store, product_id_str, quantity_str) ==
    LET product_id == ParseInt(product_id_str)
        q == ParseInt(quantity_str)
    IN /\ product_id.ok /\ product_id.value \in DOMAIN store.booze
       /\ q.ok /\ 0 < q.value
       /\ q.value <= StockOf(store, product_id.value)

\* C18: with no other process changing the store, log_product_loss returns
\* True exactly when the product exists and the quantity q typed satisfies
\* 0 < q <= current stock (the store accepting the write); then the
\* product's quantity_on_hand is lower by exactly q, q equal to the whole
\* stock leaving 0, and nothing else changed; on every rejection (unknown
\* product, non-numeric, negative, zero, q above the stock) the store is as
\* it was.
C18_LossAcceptedWithinStock ==
    \A s \in ClerkSessions :
        (inv[s].pc = "done" /\ inv[s].op = "log_product_loss") =>
            LET pre == inv[s].pre
                valid == LossIsValid(pre, inv[s].product_id_str, inv[s].quantity_str)
                p == ParseInt(inv[s].product_id_str).value
                q == ParseInt(inv[s].quantity_str).value
            IN /\ inv[s].ret = "True" <=> (valid /\ inv[s].exc = NoExc)
               /\ inv[s].ret = "True" =>
                     db = [pre EXCEPT !.booze[p].quantity_on_hand = @ - q]
               /\ inv[s].ret # "True" => db = pre
               /\ ~valid => inv[s].exc = NoExc

\* the whole stock of a product was logged as lost and the product is at 0
C18_Witness ==
    \E s \in ClerkSessions :
        /\ ClerkReturned(s, "log_product_loss", "True")
        /\ ParseInt(inv[s].quantity_str).value
              = StockOf(inv[s].pre, inv[s].product_id)
        /\ StockOf(inv[s].pre, inv[s].product_id) > 0
        /\ StockOf(db, inv[s].product_id) = 0

\* ------------------------------------------ view_last_transaction (sales.py)
\* get_transaction_by_id: <<row>>, or <<>> for None
GetTransactionById(store, transaction_id) ==
    IF transaction_id \in TransactionIds(store)
    THEN <<store.transactions[transaction_id]>> ELSE <<>>

\* get_items_for_transaction: the item rows of the transaction whose product
\* has a row in booze (JOIN booze b ON ti.product_id = b.id), by item_id
GetItemsForTransaction(store, transaction_id) ==
    LET Joined(row) == /\ row.transaction_id = transaction_id
                       /\ row.product_id \in DOMAIN store.booze
    IN SelectSeq(store.transaction_items, Joined)

\* line 303: if LAST_TRANSACTION_ID is None
NoPreviousSaleNever(last) == FALSE
NoPreviousSale(last) == last = None

\* lines 297-322, called from the menu between two sales
ViewLastTransaction(s) ==
    /\ s \in SaleSessions
    /\ ses[s].pc = "idle"
    /\ view[s].pc = "idle"
    /\ LET last == LAST_TRANSACTION_ID[s]
           v == [NoView EXCEPT !.pc = "done", !.seen = last]
       IN view' = [view EXCEPT ![s] =
             IF NoPreviousSale(last)
             THEN [v EXCEPT !.reads = 0, !.ret = "False"]
             ELSE IF GetTransactionById(db, last) = <<>>
             THEN [v EXCEPT !.reads = 1, !.ret = "False"]
             ELSE IF GetItemsForTransaction(db, last) = <<>>
             THEN [v EXCEPT !.reads = 2, !.ret = "False"]
             ELSE [v EXCEPT !.reads = 2, !.ret = "True"]]
    /\ UNCHANGED <<db, lock, ses, LAST_TRANSACTION_ID, ncalls, rs, inv, users, app>>

\* database_manager.py lines 322-323 and 366-367: a read that raises
\* sqlite3.Error answers None or [], and the view returns False
ViewStoreError(s) ==
    /\ s \in SaleSessions
    /\ ses[s].pc = "idle"
    /\ view[s].pc = "idle"
    /\ ~NoPreviousSale(LAST_TRANSACTION_ID[s])
    /\ \E reads \in {1, 2} :
          /\ reads = 2 => GetTransactionById(db, LAST_TRANSACTION_ID[s]) # <<>>
          /\ view' = [view EXCEPT ![s] =
                        [pc |-> "done", seen |-> LAST_TRANSACTION_ID[s],
                         reads |-> reads, ret |-> "False"]]
    /\ UNCHANGED <<db, lock, ses, LAST_TRANSACTION_ID, ncalls, rs, inv, users, app>>

\* the view has returned to the menu
ViewDone(s) ==
    /\ s \in SaleSessions
    /\ view[s].pc = "done"
    /\ view' = [view EXCEPT ![s] = NoView]
    /\ UNCHANGED <<db, lock, ses, LAST_TRANSACTION_ID, ncalls, rs, inv, users, app>>

\* one process that calls process_sale and view_last_transaction
LastNext ==
    \E s \in SaleSessions :
        \/ ProcessSale(s)
        \/ EngineStep(s)
        \/ SaleReturn(s)
        \/ Finish(s)
        \/ ViewLastTransaction(s)
        \/ ViewStoreError(s)
        \/ ViewDone(s)

LastSpec == Init /\ [][LastNext]_vars

\* process_sale returns success to its caller in this step
SaleSucceedsNow(s) ==
    /\ ses[s].pc = "returned" /\ ses[s].via = "process_sale"
    /\ ses'[s].pc = "done"
    /\ ses[s].result.ok

\* C19: LAST_TRANSACTION_ID is None until a process_sale call succeeds and
\* is from then on the transaction id returned by the most recent successful
\* call, which with one selling process is the id of the newest Transaction
\* row; a failed call and an empty-cart call leave it as it was; and
\* view_last_transaction, finding it None, returns False without a read of
\* the store.
C19_LastTransactionIdFollowsSuccess ==
    /\ [][\A s \in SaleSessions :
            IF SaleSucceedsNow(s)
            THEN LAST_TRANSACTION_ID'[s] = ses[s].result.value[2]
            ELSE LAST_TRANSACTION_ID'[s] = LAST_TRANSACTION_ID[s]]_vars
    /\ [](\A s \in SaleSessions :
            /\ ses[s].pc \in {"idle", "done"} =>
                  LAST_TRANSACTION_ID[s] =
                      IF db.transactions = <<>> THEN None
                      ELSE db.transactions[Len(db.transactions)].transaction_id
            /\ (ses[s].pc = "done" /\ ~ses[s].sale_result.ok) =>
                  LAST_TRANSACTION_ID[s] = ses[s].pre_last
            /\ (view[s].pc = "done" /\ view[s].seen = None) =>
                  view[s].ret = "False" /\ view[s].reads = 0)

\* the view found no previous sale and made no read; since then one call
\* succeeded and set the id, and a second call failed and left it
C19_Witness ==
    \E s \in SaleSessions :
        /\ view[s].pc = "done" /\ view[s].seen = None /\ view[s].ret = "False"
        /\ ses[s].pc = "done" /\ ~ses[s].sale_result.ok
        /\ ses[s].cart_items # <<>>
        /\ LAST_TRANSACTION_ID[s] = 1
        /\ ses[s].pre_last = 1

\* process_sale calls made since the record_sale session of s began
CallsOfSession(s) == ncalls - rs[s].calls0

\* C20: a record_sale session returns True exactly when the operator
\* confirmed a non-empty cart and process_sale succeeded; it returns False on
\* cancel, on a declined confirmation (process_sale not called) and on a
\* failed process_sale; 'complete sale' on an empty cart leaves the session
\* at its menu with process_sale not called; and a session calls
\* process_sale at most once, only after a confirmation.
C20_RecordSaleReturn ==
    \A s \in SaleSessions :
        LET r == rs[s]
            confirmed == r.last.kind = "complete" /\ r.last.confirm = "y"
        IN /\ r.pc = "ended" =>
                 /\ r.ret \in {"True", "False"}
                 /\ r.ret = "True" <=>
                       /\ confirmed
                       /\ r.cart # <<>>
                       /\ ses[s].pc = "done" /\ ses[s].sale_result.ok
                 /\ r.last.kind \in {"complete", "cancel"}
                 /\ r.last.kind = "cancel" =>
                       r.ret = "False" /\ CallsOfSession(s) = 0
                 /\ (r.last.kind = "complete" /\ r.last.confirm # "y") =>
                       /\ r.ret = "False" /\ CallsOfSession(s) = 0
                       /\ r.cart # <<>>
                 /\ (confirmed /\ ~ses[s].sale_result.ok) => r.ret = "False"
                 /\ confirmed => CallsOfSession(s) = 1 /\ ses[s].pc = "done"
           /\ (r.pc # "none" /\ r.last.kind = "complete" /\ r.cart = <<>>) =>
                 /\ r.pc = "menu"
                 /\ CallsOfSession(s) = 0
                 /\ ses[s].pc = "idle"
           /\ r.pc # "none" =>
                 /\ CallsOfSession(s) \in {0, 1}
                 /\ CallsOfSession(s) = 1 =>
                       r.pc \in {"selling", "ended"} /\ confirmed

\* the second session of the process returned True after its one call of
\* process_sale; the first had ended without a call
C20_Witness ==
    \E s \in SaleSessions :
        /\ rs[s].pc = "ended" /\ rs[s].ret = "True"
        /\ rs[s].started = 2
        /\ ncalls = 1
        /\ Len(rs[s].cart) = 2
        /\ ses[s].sale_result.ok

\* ------------------------------------------------- accounts (auth.py, app.py)
\* str.strip() and str.upper() on the characters that are typed here
RECURSIVE LStrip(_)
LStrip(text) ==
    IF text # <<>> /\ Head(text) = " " THEN LStrip(Tail(text)) ELSE text

RECURSIVE RStrip(_)
RStrip(text) ==
    IF text # <<>> /\ text[Len(text)] = " "
    THEN RStrip(SubSeq(text, 1, Len(text) - 1)) ELSE text

Strip(text) == RStrip(LStrip(text))

UpperChar(c) ==
    CASE c = "q" -> "Q" [] c = "u" -> "U" [] c = "i" -> "I" [] c = "t" -> "T"
      [] c = "m" -> "M" [] c = "a" -> "A" [] c = "n" -> "N" [] c = "g" -> "G"
      [] c = "e" -> "E" [] c = "r" -> "R" [] c = "c" -> "C" [] c = "l" -> "L"
      [] c = "k" -> "K" [] c = "y" -> "Y" [] c = "s" -> "S" [] c = "w" -> "W"
      [] c = "o" -> "O" [] OTHER -> c

Upper(text) == [i \in DOMAIN text |-> UpperChar(text[i])]

\* app.py lines 47-49 and 67-69
NormalizeChoice(choice) == IF choice = <<>> THEN <<>> ELSE Upper(Strip(choice))
QuitWords ==
    {<<"Q">>, <<"Q", "U", "I", "T">>, <<"E", "X", "I", "T">>,
     <<"B", "A", "C", "K">>}
IsQuit(choice) == NormalizeChoice(choice) \in QuitWords

\* what is typed at a username prompt and at a password prompt
NameInputs ==
    {<<>>, <<" ">>, <<"q">>, ManagerName, ClerkName, AmyName}
PasswordInputs == {<<"q">>, ManagerPassword, AmyPassword}
RoleInputs == {"Manager", "Clerk", "Admin"}

\* get_user_by_username: <<row>>, or <<>> for None; usernames compare
\* character by character
GetUserByUsername(table, username) ==
    IF username \in DOMAIN table THEN <<table[username]>> ELSE <<>>

\* auth.py lines 13-32: the role, or None
Login(table, username, password) ==
    LET user_data == GetUserByUsername(table, username)
    IN IF user_data # <<>> /\ CheckPw(password, user_data[1].password_hash)
       THEN <<user_data[1].role>> ELSE NoValue

\* auth.py line 69
DefaultAccountNames == {ManagerName, ClerkName}
IsDefaultAccountNever(username) == FALSE
IsDefaultAccount(username) == username \in DefaultAccountNames

\* database_manager.py lines 59-74: DELETE FROM users WHERE username = ?
DeletedUsers(table, username) ==
    [u \in DOMAIN table \ {username} |-> table[u]]

\* auth.py lines 59-86: (success, message), whether delete_user was called
\* and the table afterwards; store_ok tells whether the DELETE went through
DeleteAccountOutcome(table, username, password, store_ok) ==
    LET refused(message) ==
            [success |-> FALSE, message |-> message, delete_user |-> FALSE,
             table |-> table]
        user_data == GetUserByUsername(table, username)
    IN IF username = <<>> \/ Len(Strip(username)) = 0
       THEN refused("username is required")
       ELSE IF IsDefaultAccount(username)
       THEN refused("cannot delete default accounts")
       ELSE IF user_data = <<>>
       THEN refused("user not found")
       ELSE IF ~CheckPw(password, user_data[1].password_hash)
       THEN refused("incorrect password")
       ELSE IF store_ok
       THEN [success |-> TRUE, message |-> "User deleted", delete_user |-> TRUE,
             table |-> DeletedUsers(table, username)]
       ELSE [success |-> FALSE, message |-> "store error", delete_user |-> TRUE,
             table |-> table]

\* the step of main that called delete_account(username, password)
AfterDeleteAccount(kind, username, password, out) ==
    [app EXCEPT !.last =
        [kind |-> kind, username |-> username, password |-> password,
         success |-> out.success, message |-> out.message,
         delete_user |-> out.delete_user]]

\* delete_account called as the unit tests call it, with any two texts
DeleteAccount ==
    /\ app.pc = "account_menu"
    /\ \E username \in NameInputs, password \in PasswordInputs,
          store_ok \in BOOLEAN :
          LET out == DeleteAccountOutcome(users, username, password, store_ok)
          IN /\ users' = out.table
             /\ app' = AfterDeleteAccount("delete_account", username, password, out)
    /\ UNCHANGED <<db, lock, ses, LAST_TRANSACTION_ID, ncalls, rs, inv, view>>

\* app.py lines 145-173, choice '3': the username is stripped, [Q] at either
\* prompt and a "no" at the confirmation cancel
HandleDeleteAccount ==
    /\ app.pc = "account_menu"
    /\ \E typed \in NameInputs, password \in PasswordInputs,
          confirmed \in BOOLEAN, store_ok \in BOOLEAN :
          LET username == Strip(typed)
              out == DeleteAccountOutcome(users, username, password, store_ok)
          IN IF IsQuit(username) \/ IsQuit(password) \/ ~confirmed
             THEN /\ app' = [app EXCEPT !.last =
                               [NoAccountStep EXCEPT !.kind = "cancelled",
                                                     !.username = username,
                                                     !.password = password]]
                  /\ UNCHANGED users
             ELSE /\ users' = out.table
                  /\ app' = AfterDeleteAccount("handle_delete_account",
                                               username, password, out)
    /\ UNCHANGED <<db, lock, ses, LAST_TRANSACTION_ID, ncalls, rs, inv, view>>

\* auth.py lines 35-56 and database_manager.py lines 36-56, choice '2':
\* the texts are passed as typed; an existing username is an IntegrityError
MinUsernameLength == 3
MinPasswordLength == 6

CreateAccountOutcome(table, username, password, role) ==
    LET refused(message) ==
            [success |-> FALSE, message |-> message, table |-> table]
    IN IF username = <<>> \/ Len(Strip(username)) < MinUsernameLength
       THEN refused("username must be at least 3 characters")
       ELSE IF password = <<>> \/ Len(password) < MinPasswordLength
       THEN refused("password must be at least 6 characters")
       ELSE IF role \notin {"Manager", "Clerk"}
       THEN refused("role must be Manager or Clerk")
       ELSE IF username \in DOMAIN table
       THEN refused("Username already exists")
       ELSE [success |-> TRUE, message |-> "account created successfully",
             table |-> [u \in DOMAIN table \cup {username} |->
                          IF u = username
                          THEN [password_hash |-> Hashed(password), role |-> role]
                          ELSE table[u]]]

HandleCreateAccount ==
    /\ app.pc = "account_menu"
    /\ \E username \in NameInputs, password \in PasswordInputs,
          role \in RoleInputs :
          LET out == CreateAccountOutcome(users, username, password, role)
          IN /\ users' = out.table
             /\ app' = [app EXCEPT !.last =
                          [NoAccountStep EXCEPT !.kind = "create_account",
                                                !.username = username,
                                                !.password = password,
                                                !.success = out.success,
                                                !.message = out.message]]
    /\ UNCHANGED <<db, lock, ses, LAST_TRANSACTION_ID, ncalls, rs, inv, view>>

\* datetime.now()
Now == <<"datetime">>

\* app.py lines 262, 303: which menu a role opens
MenuOfAnyRole(role) == "manager_menu"
MenuOf(role) ==
    IF role = <<"Manager">> THEN "manager_menu"
    ELSE IF role = <<"Clerk">> THEN "clerk_menu"
    ELSE "account_menu"

\* app.py lines 349-395, choice '1': the login flow up to the role menu
LoginFlow ==
    /\ app.pc = "account_menu"
    /\ \E typed \in NameInputs, password \in PasswordInputs :
          LET username == Strip(typed)
              role == Login(users, username, password)
              step == [NoAccountStep EXCEPT !.username = username,
                                            !.password = password]
          IN app' =
               IF IsQuit(username) \/ IsQuit(password)
               THEN [app EXCEPT !.role = NoValue,
                                !.last = [step EXCEPT !.kind = "login_cancelled"]]
               ELSE IF role \in {<<"Manager">>, <<"Clerk">>}
               THEN [app EXCEPT !.pc = MenuOf(role), !.role = role,
                                !.CURRENT_USER = <<username>>,
                                !.CURRENT_ROLE = role,
                                !.LOGIN_TIME = Now,
                                !.last = [step EXCEPT !.kind = "login",
                                                      !.success = TRUE]]
               ELSE [app EXCEPT !.role = role,
                                !.last = [step EXCEPT !.kind = "login"]]
    /\ UNCHANGED <<db, lock, ses, LAST_TRANSACTION_ID, ncalls, rs, inv, view,
                   users>>

RoleMenus == {"manager_menu", "clerk_menu"}

\* a choice of the role menu other than logout: the menu stays
MenuChoice ==
    /\ app.pc \in RoleMenus
    /\ app.last.kind # "menu_choice"
    /\ app' = [app EXCEPT !.last = [NoAccountStep EXCEPT !.kind = "menu_choice"]]
    /\ UNCHANGED <<db, lock, ses, LAST_TRANSACTION_ID, ncalls, rs, inv, view,
                   users>>

\* app.py lines 373-376 and 388-391: the menu returns, the session is cleared
SessionCleared(value) == NoValue

Logout ==
    /\ app.pc \in RoleMenus
    /\ app' = [app EXCEPT !.pc = "account_menu",
                          !.CURRENT_USER = SessionCleared(@),
                          !.CURRENT_ROLE = SessionCleared(@),
                          !.LOGIN_TIME = SessionCleared(@),
                          !.last = [NoAccountStep EXCEPT !.kind = "logout"]]
    /\ UNCHANGED <<db, lock, ses, LAST_TRANSACTION_ID, ncalls, rs, inv, view,
                   users>>

\* app.py lines 404-406: choice '0' ends main
ExitApp ==
    /\ app.pc = "account_menu"
    /\ app' = [app EXCEPT !.pc = "exited",
                          !.last = [NoAccountStep EXCEPT !.kind = "exit"]]
    /\ UNCHANGED <<db, lock, ses, LAST_TRANSACTION_ID, ncalls, rs, inv, view,
                   users>>

AccountNext ==
    \/ LoginFlow
    \/ MenuChoice
    \/ Logout
    \/ HandleCreateAccount
    \/ HandleDeleteAccount
    \/ DeleteAccount
    \/ ExitApp

AccountSpec == Init /\ [][AccountNext]_vars

\* ------------------------------------------------ claim vocabulary: accounts
\* this step called delete_account
IsDeleteStep == app'.last.kind \in {"delete_account", "handle_delete_account"}

\* C21: delete_account removes a user, and only that user, only when the
\* username is not blank, is not 'manager' or 'clerk', names a row of the
\* users table and the password matches that row's hash; in every other
\* case it returns failure without calling delete_user and the table is
\* unchanged; so both default accounts are in the table in every state.
C21_DeleteAccountGuards ==
    /\ [][IsDeleteStep =>
            LET username == app'.last.username
                password == app'.last.password
                allowed == /\ username # <<>>
                           /\ username \notin DefaultAccountNames
                           /\ username \in DOMAIN users
                           /\ users[username].password_hash = Hashed(password)
            IN /\ app'.last.success =>
                     /\ allowed
                     /\ app'.last.delete_user
                     /\ users' = DeletedUsers(users, username)
                     /\ username \notin DOMAIN users'
               /\ ~app'.last.success => users' = users
               /\ ~allowed => ~app'.last.success /\ ~app'.last.delete_user
               /\ users' # users => app'.last.success]_vars
    /\ [](/\ DefaultAccountNames \subseteq DOMAIN users
          /\ \A u \in DefaultAccountNames : users[u] = DefaultUsers[u])

\* an account was created and then deleted with its password, after
\* attempts on a default account had been refused
C21_Witness ==
    /\ app.last.kind = "handle_delete_account"
    /\ app.last.success /\ app.last.delete_user
    /\ app.last.username = AmyName
    /\ DOMAIN users = DefaultAccountNames

\* the three session globals of app.py
SessionGlobals == <<app.CURRENT_USER, app.CURRENT_ROLE, app.LOGIN_TIME>>

\* C22: main enters the manager menu only in the step in which login
\* returned 'Manager' and the clerk menu only in the step in which login
\* returned 'Clerk', and no menu when login returned None; CURRENT_USER,
\* CURRENT_ROLE and LOGIN_TIME are all set while a role menu is active, to
\* the user and role of that login, and are all None otherwise, so after a
\* logout and after a failed login.
C22_MenuFollowsLoginRole ==
    /\ [][/\ \A menu \in RoleMenus :
               (app.pc # menu /\ app'.pc = menu) =>
                   /\ app.pc = "account_menu"
                   /\ app'.last.kind = "login"
                   /\ app'.role = Login(users, app'.last.username,
                                        app'.last.password)
                   /\ app'.role = IF menu = "manager_menu"
                                  THEN <<"Manager">> ELSE <<"Clerk">>
          /\ (app'.last.kind = "login" /\ app'.last # app.last) =>
                IF Login(users, app'.last.username, app'.last.password) = NoValue
                THEN app'.pc = "account_menu" /\ app'.role = NoValue
                ELSE app'.pc \in RoleMenus
          /\ (app.pc \in RoleMenus /\ app'.pc \notin RoleMenus) =>
                app'.pc = "account_menu" /\ app'.last.kind = "logout"]_vars
    /\ [](IF app.pc \in RoleMenus
          THEN /\ app.CURRENT_USER # NoValue
               /\ app.CURRENT_ROLE # NoValue
               /\ app.LOGIN_TIME # NoValue
               /\ app.CURRENT_ROLE = app.role
               /\ app.CURRENT_USER[1] \in DOMAIN users
               /\ users[app.CURRENT_USER[1]].role = app.CURRENT_ROLE[1]
               /\ app.pc = MenuOf(app.CURRENT_ROLE)
          ELSE SessionGlobals = <<NoValue, NoValue, NoValue>>)

\* an account created with the role Manager is in the manager menu
C22_Witness ==
    /\ app.pc = "manager_menu"
    /\ app.CURRENT_USER = <<AmyName>>
    /\ app.CURRENT_ROLE = <<"Manager">>
    /\ app.LOGIN_TIME # NoValue

\* --------------------------------------- claim vocabulary: the lines of a call
\* the quantity the first n lines of cart ask of product p
AskedBefore(cart, n, p) == CartQty(SubSeq(cart, 1, n), p)

\* the stock of p that the call of session s, holding the write lock, finds
\* when it comes to line k: the committed stock less its own earlier lines
StockAtLine(s, k, p) == StockOf(db, p) - AskedBefore(ses[s].cart_items, k - 1, p)

\* C23: cart lines are examined in cart order and the call stops at the
\* first line whose product is missing or whose re-read stock is smaller than
\* its quantity: every earlier line passed, the reason names that line's
\* product id, gives as available the stock re-read at that moment, which is
\* the committed stock less the earlier lines of this call, and as requested
\* that line's quantity; the writes issued are those of the earlier lines
\* only, and none is persisted.
C23_StopsAtFirstFailingLine ==
    [][\A s \in Sessions :
          LET cart == ses[s].cart_items
              k == ses[s].idx
              item == cart[k]
              p == item.product_id
          IN /\ (/\ ses[s].pc = "select" /\ ses'[s].pc = "returned"
                 /\ ~IsStoreError(ses'[s].result)) =>
                    /\ ses'[s].idx = k
                    /\ \A j \in 1..(k - 1) :
                          /\ cart[j].product_id \in Products
                          /\ StockAtLine(s, j, cart[j].product_id)
                                >= cart[j].quantity
                    /\ \A q \in Products :
                          StockOf(ses[s].work, q) = StockAtLine(s, k, q)
                    /\ IF p \notin Products
                       THEN ses'[s].result = Failure(NotFoundMsg(p))
                       ELSE /\ StockAtLine(s, k, p) < item.quantity
                            /\ ses'[s].result =
                                  Failure(InsufficientMsg(p, StockAtLine(s, k, p),
                                                          item.quantity))
                    /\ db' = db
             /\ (ses[s].pc = "select" /\ ses'[s].pc = "update") =>
                    /\ p \in Products
                    /\ StockAtLine(s, k, p) >= item.quantity
                    /\ ses'[s].new_stock = StockAtLine(s, k, p) - item.quantity]_vars

\* the second line of a cart was refused against the stock its first line
\* had left: available is the initial stock less the first line's quantity
C23_Witness ==
    \E s \in Sessions :
        /\ Returned(s) /\ ses[s].clean
        /\ IsInsufficient(ses[s].result)
        /\ ses[s].idx = 2
        /\ ses[s].cart_items[1].product_id = ses[s].cart_items[2].product_id
        /\ ses[s].result.value[2] = ses[s].cart_items[2].product_id
        /\ ses[s].result.value[3] =
              StockOf(ses[s].pre, ses[s].cart_items[1].product_id)
                 - ses[s].cart_items[1].quantity
        /\ ses[s].result.value[3] > 0
        /\ ses[s].result.value[4] = ses[s].cart_items[2].quantity

\* ------------------------------------- a sale session beside a price change
\* one record_sale session of the process
RecordOneSale(s) == rs[s].started = 0 /\ RecordSale(s)

\* the prices a manager changes a product to
NewPrices == {Typed(0), Typed(LinePrice(MissingId) + 1)}

\* update_product_cli on an existing product, a new price typed and the
\* quantity left blank
UpdatePriceCli(s) ==
    \E p \in Products, price_str \in NewPrices :
        UpdateProductCliWith(s, Typed(p), price_str, Blank)

PriceNext ==
    \/ \E s \in SaleSessions :
          \/ RecordOneSale(s)
          \/ AddItemToCart(s)
          \/ CompleteSale(s)
          \/ Cancel(s)
          \/ CallProcessSale(s)
          \/ EngineStep(s)
          \/ SaleReturn(s)
          \/ CompleteReturn(s)
          \/ EndRecordSale(s)
    \/ \E s \in ClerkSessions :
          \/ UpdatePriceCli(s)
          \/ UpdateProductDetails(s)
          \/ WriteError(s)
          \/ OperationDone(s)

PriceSpec == Init /\ [][PriceNext]_vars

\* an add-to-cart step of session s that put a new line in the cart
AddsLineNow(s) ==
    /\ rs[s].pc = "menu"
    /\ rs'[s].pc = "menu"
    /\ Len(rs'[s].cart) = Len(rs[s].cart) + 1

\* C24: the price_at_sale of a cart line is the catalog price read when the
\* line was added: a line enters the cart with the price the store holds at
\* that step, no later step changes a line of the cart, and the commit writes
\* one item row per line with the line's own price and a header whose total
\* is the total of those lines, whatever the product's price is by then.
C24_PriceAtSaleIsPriceAtAdd ==
    [][\A s \in SaleSessions :
          /\ AddsLineNow(s) =>
                LET line == rs'[s].cart[Len(rs'[s].cart)]
                IN /\ line.product_id \in DOMAIN db.booze
                   /\ line.price = db.booze[line.product_id].price
                   /\ SubSeq(rs'[s].cart, 1, Len(rs[s].cart)) = rs[s].cart
          /\ (rs[s].pc \in {"menu", "selling"} /\ ~AddsLineNow(s)
                 /\ rs'[s].pc # "none") => rs'[s].cart = rs[s].cart
          /\ CommitsNow(s) =>
                LET n == Len(db.transaction_items)
                    tid == ses'[s].result.value[2]
                IN /\ db'.transaction_items =
                         db.transaction_items \o ItemRows(rs[s].cart, tid, n)
                   /\ db'.transactions =
                         Append(db.transactions,
                                [transaction_id |-> tid,
                                 total_amount |-> CartTotal(rs[s].cart)])]_vars

\* a sale committed a line whose price differs from the catalog price the
\* store held when process_sale_transaction was entered
C24_Witness ==
    \E s \in SaleSessions :
        /\ ses[s].pc = "returned"
        /\ ses[s].result.ok
        /\ \E k \in 1..Len(rs[s].cart) :
              LET line == rs[s].cart[k]
              IN /\ line.price # ses[s].pre.booze[line.product_id].price
                 /\ line.price # db.booze[line.product_id].price
                 /\ \E i \in 1..Len(db.transaction_items) :
                       /\ db.transaction_items[i].transaction_id = ses[s].result.value[2]
                       /\ db.transaction_items[i].product_id = line.product_id
                       /\ db.transaction_items[i].price_at_sale = line.price

\* the item rows of transaction tid, in insertion order
RowsOfTransaction(store, tid) ==
    SelectSeq(store.transaction_items, LAMBDA row : row.transaction_id = tid)

\* C25: every TransactionItem row persisted by a record_sale session has
\* quantity > 0: every cart line holds a strictly positive quantity, and a
\* successful commit stores one row per line with the line's quantity.
C25_PersistedQuantityPositive ==
    /\ \A i \in 1..Len(db.transaction_items) : db.transaction_items[i].quantity > 0
    /\ \A s \in SaleSessions :
          /\ \A k \in 1..Len(rs[s].cart) : rs[s].cart[k].quantity > 0
          /\ (rs[s].pc = "selling" /\ ses[s].pc = "returned" /\ ses[s].result.ok)
                => LET rows == RowsOfTransaction(db, ses[s].result.value[2])
                   IN /\ Len(rows) = Len(rs[s].cart)
                      /\ \A k \in 1..Len(rows) :
                            /\ rows[k].product_id = rs[s].cart[k].product_id
                            /\ rows[k].quantity = rs[s].cart[k].quantity

\* a record_sale session committed a line of the largest typed quantity
C25_Witness ==
    \E s \in SaleSessions :
        /\ rs[s].pc = "selling"
        /\ ses[s].pc = "returned"
        /\ ses[s].result.ok
        /\ \E k \in 1..Len(rs[s].cart) : rs[s].cart[k].quantity = MaxQty
        /\ \E i \in 1..Len(db.transaction_items) :
              /\ db.transaction_items[i].transaction_id = ses[s].result.value[2]
              /\ db.transaction_items[i].quantity = MaxQty

\* the cart holds several lines and all of them are for product p
SeveralLinesFor(cart, p) ==
    /\ Len(cart) >= 2
    /\ \A k \in 1..Len(cart) : cart[k].product_id = p

\* the step in which the call of session s returns
ReturnsNow(s) == ses[s].pc \notin {"idle", "returned", "done"} /\ ses'[s].pc = "returned"

\* C26: with several cart lines for one product the commit-time check is
\* cumulative: when the lines sum to more than the product's stock the call
\* fails and leaves the store as it was, also when every single line is within
\* stock; when they sum to at most the stock the call succeeds (unless the
\* store fails) and the stock goes down by the sum.
C26_CommitCheckIsCumulative ==
    [][\A s \in Sessions : \A p \in Products :
          (SeveralLinesFor(ses[s].cart_items, p) /\ ReturnsNow(s)) =>
             LET asked == CartQty(ses[s].cart_items, p)
             IN IF asked > StockOf(db, p)
                THEN /\ ~ses'[s].result.ok
                     /\ db' = db
                ELSE \/ /\ IsStoreError(ses'[s].result)
                        /\ db' = db
                     \/ /\ ses'[s].result.ok
                        /\ StockOf(db', p) = StockOf(db, p) - asked
                        /\ \A q \in Products \ {p} : StockOf(db', q) = StockOf(db, q)]_vars

\* one call was refused at its second line for a product although each of its
\* two lines was within the stock it met, and another call with two lines for
\* one product went through
C26_Witness ==
    \E s, t \in Sessions : \E p, q \in Products :
        /\ s # t
        /\ ses[s].pc = "returned"
        /\ SeveralLinesFor(ses[s].cart_items, p)
        /\ ses[s].idx = 2
        /\ ~ses[s].result.ok
        /\ \E met \in 1..MaxStock :
              /\ ses[s].result.value =
                    InsufficientMsg(p, met - ses[s].cart_items[1].quantity,
                                    ses[s].cart_items[2].quantity)
              /\ \A k \in 1..2 : ses[s].cart_items[k].quantity <= met
        /\ ses[t].pc = "returned"
        /\ SeveralLinesFor(ses[t].cart_items, q)
        /\ ses[t].result.ok
        /\ StockOf(db, q) = StockOf(ses[t].pre, q) - CartQty(ses[t].cart_items, q)

\* C27: when nothing else changes the store during a record_sale session,
\* every non-empty cart built by handle_add_item_to_cart commits: while the
\* cart is being built every line is for an existing product and the lines of
\* each product sum to at most its stock, and a confirmed sale ends in success
\* unless the store failed.
C27_BuiltCartCommits ==
    \A s \in SaleSessions :
        /\ rs[s].pc \in {"menu", "selling"} /\ ses[s].pc \in {"idle", "insert_txn"}
              => \A k \in 1..Len(rs[s].cart) :
                    LET p == rs[s].cart[k].product_id
                    IN /\ p \in Products
                       /\ CartQty(rs[s].cart, p) <= StockOf(db, p)
        /\ (rs[s].pc = "selling" /\ Returned(s))
              => \/ ses[s].result.ok
                 \/ IsStoreError(ses[s].result)
        /\ (rs[s].pc = "ended" /\ rs[s].ret = "False" /\ Returned(s))
              => IsStoreError(ses[s].result)

\* a session sold a cart with two lines for one product that took the whole
\* stock of that product
C27_Witness ==
    \E s \in SaleSessions : \E p \in Products :
        /\ rs[s].pc = "ended"
        /\ rs[s].ret = "True"
        /\ SeveralLinesFor(rs[s].cart, p)
        /\ ses[s].result.ok
        /\ StockOf(ses[s].pre, p) = CartQty(rs[s].cart, p)
        /\ StockOf(db, p) = 0

\* ------------------------------ sales beside receipts and losses of stock
TrackNext ==
    \/ \E s \in SaleSessions :
          \/ ProcessSaleOneLine(s)
          \/ EngineStep(s)
          \/ SaleReturn(s)
          \/ Finish(s)
    \/ \E s \in ClerkSessions :
          \/ ReceiveNewStock(s)
          \/ LogProductLoss(s)
          \/ AdjustStock(s)
          \/ WriteError(s)
          \/ OperationDone(s)

TrackSpec == Init /\ [][TrackNext]_vars

\* the step in which operation op of clerk session s writes the stock of
\* product p and succeeds
WritesNow(s, op, p) ==
    /\ inv[s].pc = "adjust"
    /\ inv[s].op = op
    /\ inv[s].product_id = p
    /\ inv'[s].pc = "done"
    /\ inv'[s].ret = "True"

\* the quantity typed for the running operation of clerk session s
TypedQuantity(s) == ParseInt(inv[s].quantity_str).value

\* C28 as stated: in every interleaving of sale commits, receipts and losses
\* no update is lost, the stock of a product being its initial stock plus the
\* successful receipts minus the successful losses minus the quantities in
\* committed item rows; step by step: a successful receipt adds its quantity,
\* a successful loss takes its quantity, a commit takes the quantities of its
\* lines, and no other step changes the stock.
C28_Original ==
    [][\A p \in Products :
          LET delta == StockOf(db', p) - StockOf(db, p)
          IN IF \E s \in ClerkSessions : WritesNow(s, "receive_new_stock", p)
             THEN \E s \in ClerkSessions : delta = TypedQuantity(s)
             ELSE IF \E s \in ClerkSessions : WritesNow(s, "log_product_loss", p)
             THEN \E s \in ClerkSessions : delta = 0 - TypedQuantity(s)
             ELSE IF \E s \in Sessions : CommitsNow(s)
             THEN \E s \in Sessions :
                     CommitsNow(s) /\ delta = 0 - CartQty(ses[s].cart_items, p)
             ELSE delta = 0]_vars

\* the quantity of product p in the committed item rows of a store
SoldQty(store, p) == CartQty(store.transaction_items, p)

\* C29: when only sale commits change the stock, in every committed store and
\* for every product the initial stock less quantity_on_hand is the sum of the
\* product's quantities over the committed item rows (nothing is sold at the
\* start and every step keeps stock plus sold the same), and the stock never
\* goes below zero, so the quantity sold never exceeds the initial stock.
C29_SoldMatchesStockDrop ==
    /\ [](\A p \in Products :
             /\ StockOf(db, p) >= 0
             /\ (db.transactions = <<>> => SoldQty(db, p) = 0))
    /\ [][\A p \in Products :
             StockOf(db', p) + SoldQty(db', p) = StockOf(db, p) + SoldQty(db, p)]_vars

\* two sessions sold the whole stock of one product between them
C29_Witness ==
    \E p \in Products : \E s, t \in Sessions :
        /\ s # t
        /\ ses[s].pc = "returned" /\ ses[s].result.ok
        /\ ses[t].pc = "returned" /\ ses[t].result.ok
        /\ CartQty(ses[s].cart_items, p) > 0
        /\ CartQty(ses[t].cart_items, p) > 0
        /\ StockOf(db, p) = 0
        /\ SoldQty(db, p) = MaxStock

\* C30: the ids returned by successful calls are pairwise distinct and
\* strictly increasing in commit order: a commit returns an id greater than
\* every id already in the transactions table, appends the header with that
\* id, and every item row it adds carries that id; the table therefore holds
\* strictly increasing ids in commit order.
C30_ReturnedIdsIncrease ==
    /\ [](\A i, j \in 1..Len(db.transactions) :
             i < j => db.transactions[i].transaction_id
                         < db.transactions[j].transaction_id)
    /\ [][\A s \in Sessions :
             CommitsNow(s) =>
                LET tid == ses'[s].result.value[2]
                    n == Len(db.transaction_items)
                IN /\ \A id \in TransactionIds(db) : id < tid
                   /\ tid \notin TransactionIds(db)
                   /\ Len(db'.transactions) = Len(db.transactions) + 1
                   /\ SubSeq(db'.transactions, 1, Len(db.transactions))
                         = db.transactions
                   /\ db'.transactions[Len(db'.transactions)].transaction_id = tid
                   /\ Len(db'.transaction_items) = n + Len(ses[s].cart_items)
                   /\ SubSeq(db'.transaction_items, 1, n) = db.transaction_items
                   /\ \A k \in (n + 1)..Len(db'.transaction_items) :
                         db'.transaction_items[k].transaction_id = tid]_vars

\* two calls committed, the later one with the greater id and two item rows
\* under it
C30_Witness ==
    \E s, t \in Sessions :
        /\ s # t
        /\ ses[s].pc = "returned" /\ ses[s].result.ok
        /\ ses[t].pc = "returned" /\ ses[t].result.ok
        /\ ses[s].result.value[2] < ses[t].result.value[2]
        /\ Len(db.transactions) = 2
        /\ Len(RowsOfTransaction(db, ses[t].result.value[2])) = 2
        /\ Len(RowsOfTransaction(db, ses[s].result.value[2])) >= 1

====
